---- MODULE Spec2Model ----
(***************************************************************************)
(* Last-Show Oracle (worker.py, songkick_row_classification.py).           *)
(*                                                                         *)
(* Text is modelled as sequences of one-character strings, so that         *)
(* str.lower(), str.strip(), the "in" substring test, string comparison    *)
(* and strptime are computed character by character, the way the Python    *)
(* code computes them.  Candidates are records with the fields of the      *)
(* pydantic Candidate model; lists of candidates are sequences, and the    *)
(* selection works on positions in the request's list (Python object       *)
(* references) while "!=" between candidates compares field values         *)
(* (pydantic BaseModel equality).                                          *)
(***************************************************************************)
EXTENDS Integers, Sequences, FiniteSets, TLC

VARIABLES
    venuesFile,                 \* content of settings.VENUE_WHITELISTS_PATH on disk
    sf_venue_whitelist_lower,   \* global SF_VENUE_WHITELIST_LOWER, set by lifespan
    nyc_venue_whitelist_lower,  \* global NYC_VENUE_WHITELIST_LOWER, set by lifespan
    pc,                         \* "idle", or the call that has just returned
    request,                    \* arguments of that call: [candidates, metro]
    result                      \* what that call returned

vars == <<venuesFile, sf_venue_whitelist_lower, nyc_venue_whitelist_lower, pc,
          request, result>>

\* Python's None in a text field (Candidate.metro, Candidate.source_host).
None == "None"

\* Python's None where a position in the candidate list is expected: no winner.
NoWinner == 0

-----------------------------------------------------------------------------
(* Text primitives                                                         *)

UPPERCASE == <<"A", "B", "C", "D", "E", "F", "G", "H", "I", "J", "K", "L", "M",
               "N", "O", "P", "Q", "R", "S", "T", "U", "V", "W", "X", "Y", "Z">>

LOWERCASE == <<"a", "b", "c", "d", "e", "f", "g", "h", "i", "j", "k", "l", "m",
               "n", "o", "p", "q", "r", "s", "t", "u", "v", "w", "x", "y", "z">>

DIGITS == <<"0", "1", "2", "3", "4", "5", "6", "7", "8", "9">>

\* The characters the model's texts use, in code-point order.
CODEPOINTS == <<" ", ",", "-", ".", "/">> \o DIGITS \o <<":">> \o UPPERCASE \o LOWERCASE

\* Position of ch in a sequence of distinct characters.
IndexIn(chars) == [ch \in {chars[i] : i \in 1..Len(chars)} |->
                      CHOOSE i \in 1..Len(chars) : chars[i] = ch]

\* Code-point order of the characters, the lower-case form of the capitals and
\* the value of the digits, as tables.
ord == IndexIn(CODEPOINTS)

LowerOf == [ch \in DOMAIN IndexIn(UPPERCASE) |-> LOWERCASE[IndexIn(UPPERCASE)[ch]]]

DigitValue == [ch \in DOMAIN IndexIn(DIGITS) |-> IndexIn(DIGITS)[ch] - 1]

lower_char(ch) == IF ch \in DOMAIN LowerOf THEN LowerOf[ch] ELSE ch

Letters == DOMAIN IndexIn(UPPERCASE) \cup DOMAIN IndexIn(LOWERCASE)

\* str.lower()
lower(s) == [i \in 1..Len(s) |-> lower_char(s[i])]

\* Python's "t in s" for strings.
Contains(t, s) ==
    \E i \in 1..(Len(s) - Len(t) + 1) : SubSeq(s, i, i + Len(t) - 1) = t

\* str.strip(): leading and trailing blanks removed.
strip(s) ==
    LET nonblank == {i \in 1..Len(s) : s[i] # " "}
    IN  IF nonblank = {} THEN <<>>
        ELSE SubSeq(s, CHOOSE i \in nonblank : \A j \in nonblank : i <= j,
                       CHOOSE i \in nonblank : \A j \in nonblank : i >= j)

\* Python's ">" between strings: code-point order, a proper prefix is smaller.
StrGreater(a, b) ==
    \E i \in 1..Len(a) :
        /\ \A j \in 1..(i - 1) : j <= Len(b) /\ a[j] = b[j]
        /\ \/ i > Len(b)
           \/ ord[a[i]] > ord[b[i]]

IsDigits(s) == \A i \in 1..Len(s) : s[i] \in DOMAIN DigitValue

\* int() of a string of digits.
RECURSIVE ToInt(_)
ToInt(s) ==
    IF s = <<>> THEN 0
    ELSE 10 * ToInt(SubSeq(s, 1, Len(s) - 1)) + DigitValue[s[Len(s)]]

-----------------------------------------------------------------------------
(* Calendar dates: datetime.strptime(text, "%Y-%m-%d").date()              *)

IsLeap(y) == (y % 4 = 0) /\ ((y % 100 # 0) \/ (y % 400 = 0))

DaysInMonth(y, m) ==
    IF m = 2 THEN (IF IsLeap(y) THEN 29 ELSE 28)
    ELSE IF m \in {4, 6, 9, 11} THEN 30 ELSE 31

RECURSIVE DaysBeforeMonth(_, _)
DaysBeforeMonth(y, m) ==
    IF m = 1 THEN 0 ELSE DaysBeforeMonth(y, m - 1) + DaysInMonth(y, m - 1)

\* date.toordinal(): day number in the proleptic Gregorian calendar.
toordinal(y, m, d) ==
    LET p == y - 1
    IN  p * 365 + (p \div 4) - (p \div 100) + (p \div 400) + DaysBeforeMonth(y, m) + d

\* The fields "%Y-%m-%d" matches: four digits, "-", a month written 1..9, 01..09
\* or 10..12, "-", a day written 1..9, 01..09 or 10..31, and nothing else.
\* Returns the day number (at least 1), or ValueError where strptime raises it
\* (no match, unconverted data, or a day the month does not have).
ValueError == 0

strptime(text) ==
    LET dashes == {i \in 1..Len(text) : text[i] = "-"}
    IN  IF Cardinality(dashes) # 2 \/ ~(5 \in dashes) THEN ValueError
        ELSE
          LET second == CHOOSE i \in dashes : i # 5
              ys == SubSeq(text, 1, 4)
              ms == SubSeq(text, 6, second - 1)
              ds == SubSeq(text, second + 1, Len(text))
          IN  IF ~(IsDigits(ys) /\ IsDigits(ms) /\ IsDigits(ds)) THEN ValueError
              ELSE IF ~(Len(ms) \in {1, 2} /\ Len(ds) \in {1, 2}) THEN ValueError
              ELSE
                LET y == ToInt(ys)
                    m == ToInt(ms)
                    d == ToInt(ds)
                IN  IF m \in 1..12 /\ d >= 1 /\ d <= DaysInMonth(y, m) /\ y >= 1
                    THEN toordinal(y, m, d)
                    ELSE ValueError

-----------------------------------------------------------------------------
(* Configuration tables of worker.py                                       *)

METRO_TOKENS ==
    [SF  |-> << <<"S", "a", "n", " ", "F", "r", "a", "n", "c", "i", "s", "c", "o">>,
                <<"S", "F">>,
                <<"O", "a", "k", "l", "a", "n", "d">>,
                <<"B", "e", "r", "k", "e", "l", "e", "y">>,
                <<"S", "a", "n", " ", "J", "o", "s", "e">>,
                <<"P", "a", "l", "o", " ", "A", "l", "t", "o">>,
                <<"M", "o", "u", "n", "t", "a", "i", "n", " ", "V", "i", "e", "w">>,
                <<"S", "a", "n", "t", "a", " ", "C", "l", "a", "r", "a">>,
                <<"D", "a", "l", "y", " ", "C", "i", "t", "y">> >>,
     NYC |-> << <<"N", "e", "w", " ", "Y", "o", "r", "k">>,
                <<"N", "Y", "C">>,
                <<"M", "a", "n", "h", "a", "t", "t", "a", "n">>,
                <<"B", "r", "o", "o", "k", "l", "y", "n">>,
                <<"Q", "u", "e", "e", "n", "s">>,
                <<"B", "r", "o", "n", "x">>,
                <<"S", "t", "a", "t", "e", "n", " ", "I", "s", "l", "a", "n", "d">> >>]

SOURCE_PRECEDENCE ==
    [venue |-> 7, ticketing |-> 6, artist |-> 5, setlist |-> 4,
     songkick |-> 3, bandsintown |-> 2, press |-> 1]

\* dict.get(key, default)
Get(dict, key, default) == IF key \in DOMAIN dict THEN dict[key] ELSE default

\* Faulty variant: a source type missing from the table ranks above all others.
precedence_default_high(c) == Get(SOURCE_PRECEDENCE, c.source_type, 8)

\* SOURCE_PRECEDENCE.get(x.source_type, 0), the sort key of both precedence sorts.
precedence(c) == Get(SOURCE_PRECEDENCE, c.source_type, 0)

\* The venues file: whether open() and json.load() succeed, and the document.
Unreadable == [readable |-> FALSE, json |-> [SF |-> <<>>, NYC |-> <<>>]]

-----------------------------------------------------------------------------
(* Metro membership and validity (worker.py)                               *)

belongs_to_metro(city, venue, metro) ==
    IF city = <<>> /\ venue = <<>> THEN FALSE
    ELSE
      LET tokens == Get(METRO_TOKENS, metro, <<>>)
          city_lower == lower(city)
      IN  \/ /\ city # <<>>
             /\ \E t \in 1..Len(tokens) : Contains(lower(tokens[t]), city_lower)
          \/ /\ venue # <<>>
             /\ venuesFile.readable
             /\ LET venue_whitelist == Get(venuesFile.json, metro, <<>>)
                IN  \E k \in 1..Len(venue_whitelist) : venue_whitelist[k] = venue

\* date.today()
Today == toordinal(2024, 3, 2)

\* Faulty variant: the filter forgets the metro test.
is_valid_candidate_any_metro(candidate, metro) ==
    LET candidate_date == strptime(candidate.date_iso)
    IN  candidate_date # ValueError /\ candidate_date <= Today /\ ~candidate.canceled

\* Faulty variant: the filter forgets the canceled flag.
is_valid_candidate_keeps_canceled(candidate, metro) ==
    LET candidate_date == strptime(candidate.date_iso)
    IN  /\ candidate_date # ValueError
        /\ candidate_date <= Today
        /\ belongs_to_metro(candidate.city, candidate.venue, metro)

is_valid_candidate(candidate, metro) ==
    LET candidate_date == strptime(candidate.date_iso)
    IN  IF candidate_date = ValueError THEN FALSE
        ELSE IF candidate_date > Today THEN FALSE
        ELSE IF candidate.canceled THEN FALSE
        ELSE belongs_to_metro(candidate.city, candidate.venue, metro)

-----------------------------------------------------------------------------
(* list.sort(key=..., reverse=True): descending and stable, i.e. elements  *)
(* with equal keys keep their order.  greater[a][b] is key(a) > key(b).    *)

RECURSIVE SortDesc(_, _)
SortDesc(s, greater) ==
    IF s = <<>> THEN <<>>
    ELSE
      LET init == SortDesc(SubSeq(s, 1, Len(s) - 1), greater)
          x == s[Len(s)]
          k == Cardinality({i \in 1..Len(init) : ~greater[x][init[i]]})
      IN  SubSeq(init, 1, k) \o <<x>> \o SubSeq(init, k + 1, Len(init))

\* s[:n]
Take(s, n) == SubSeq(s, 1, IF Len(s) < n THEN Len(s) ELSE n)

Abs(n) == IF n < 0 THEN -n ELSE n

\* 1, 2, ..., n as a list
RECURSIVE Positions(_)
Positions(n) == IF n = 0 THEN <<>> ELSE Append(Positions(n - 1), n)

-----------------------------------------------------------------------------------------------------------------------------------------------------
(* select_latest_candidates (worker.py).  The lists hold positions in      *)
(* `candidates` (the objects of the Python list); the returned winner and  *)
(* alternates are positions too.                                           *)

\* [c for c in candidates if is_valid_candidate(c, metro)]
filter_valid(candidates, metro) ==
    LET IsValid(i) == is_valid_candidate(candidates[i], metro)
    IN  SelectSeq(Positions(Len(candidates)), IsValid)

\* Faulty variant: the date sort without reverse=True.
sort_by_date_ascending(candidates, s) ==
    LET pos == 1..Len(candidates)
    IN  SortDesc(s, [a \in pos |-> [b \in pos |->
            StrGreater(candidates[b].date_iso, candidates[a].date_iso)]])

\* Faulty variant: the date sort left out.
sort_by_date_skipped(candidates, s) == s

\* .sort(key=lambda x: x.date_iso, reverse=True): the key is the date text.
sort_by_date(candidates, s) ==
    LET pos == 1..Len(candidates)
    IN  SortDesc(s, [a \in pos |-> [b \in pos |->
            StrGreater(candidates[a].date_iso, candidates[b].date_iso)]])

\* Faulty variant: the precedence sort without reverse=True.
sort_by_precedence_ascending(candidates, s) ==
    LET pos == 1..Len(candidates)
    IN  SortDesc(s, [a \in pos |-> [b \in pos |->
            precedence(candidates[b]) > precedence(candidates[a])]])

\* Faulty variant: a precedence sort that puts the later of two equal keys first.
sort_by_precedence_ties_reversed(candidates, s) ==
    LET pos == 1..Len(candidates)
    IN  SortDesc(s, [a \in pos |-> [b \in pos |->
            \/ precedence(candidates[a]) > precedence(candidates[b])
            \/ precedence(candidates[a]) = precedence(candidates[b]) /\ a > b]])

\* .sort(key=lambda x: SOURCE_PRECEDENCE.get(x.source_type, 0), reverse=True)
sort_by_precedence(candidates, s) ==
    LET pos == 1..Len(candidates)
    IN  SortDesc(s, [a \in pos |-> [b \in pos |->
            precedence(candidates[a]) > precedence(candidates[b])]])

\* Faulty variant: a near-tie window of 4 days.
within_near_tie_4_days(date_iso, latest_date) ==
    LET candidate_date == strptime(date_iso)
        latest_date_obj == strptime(latest_date)
    IN  /\ candidate_date # ValueError
        /\ latest_date_obj # ValueError
        /\ Abs(candidate_date - latest_date_obj) <= 4

\* Faulty variant: a near-tie window that ends before the third day.
within_near_tie_exclusive(date_iso, latest_date) ==
    LET candidate_date == strptime(date_iso)
        latest_date_obj == strptime(latest_date)
    IN  /\ candidate_date # ValueError
        /\ latest_date_obj # ValueError
        /\ Abs(candidate_date - latest_date_obj) < 3

\* The test of the near-tie loop: both dates parse and lie at most 3 days apart.
within_near_tie(date_iso, latest_date) ==
    LET candidate_date == strptime(date_iso)
        latest_date_obj == strptime(latest_date)
    IN  /\ candidate_date # ValueError
        /\ latest_date_obj # ValueError
        /\ Abs(candidate_date - latest_date_obj) <= 3

\* Faulty variant: the venue is looked up in the snippet without lower-casing.
venue_in_snippet_case_sensitive(candidate) ==
    /\ candidate.venue # <<>>
    /\ Contains(candidate.venue, candidate.snippet)

\* candidate.venue and candidate.venue.lower() in candidate.snippet.lower()
venue_in_snippet(candidate) ==
    /\ candidate.venue # <<>>
    /\ Contains(lower(candidate.venue), lower(candidate.snippet))

\* [c for c in valid_candidates[:4] if c != w]: "!=" compares the fields.
alternates_without(candidates, valid_candidates, w) ==
    LET Differs(i) == candidates[i] # candidates[w]
    IN  SelectSeq(Take(valid_candidates, 4), Differs)

select_latest_candidates(candidates, metro) ==
    LET filtered == filter_valid(candidates, metro)
    IN  IF filtered = <<>>
        THEN [winner |-> NoWinner, alternates |-> <<>>,
              decision_path |-> <<"no_valid_candidates">>]
        ELSE
          LET valid_candidates == sort_by_date(candidates, filtered)
              latest_date == candidates[valid_candidates[1]].date_iso
              IsLatest(i) == candidates[i].date_iso = latest_date
              latest_candidates == SelectSeq(valid_candidates, IsLatest)
          IN  IF Len(latest_candidates) = 1
              THEN
                LET InWindow(i) == within_near_tie(candidates[i].date_iso, latest_date)
                    near_tie_candidates ==
                        <<latest_candidates[1]>>
                            \o SelectSeq(Tail(valid_candidates), InWindow)
                IN  IF Len(near_tie_candidates) > 1
                    THEN
                      LET w == sort_by_precedence(candidates, near_tie_candidates)[1]
                      IN  [winner |-> w,
                           alternates |-> alternates_without(candidates, valid_candidates, w),
                           decision_path |-> <<"latest_date", "near_tie_precedence">>]
                    ELSE [winner |-> latest_candidates[1],
                          alternates |-> Tail(Take(valid_candidates, 4)),
                          decision_path |-> <<"latest_date">>]
              ELSE
                LET by_precedence == sort_by_precedence(candidates, latest_candidates)
                    HasVenue(i) == venue_in_snippet(candidates[i])
                    with_venue == SelectSeq(by_precedence, HasVenue)
                IN  IF with_venue # <<>>
                    THEN [winner |-> with_venue[1],
                          alternates |->
                              alternates_without(candidates, valid_candidates, with_venue[1]),
                          decision_path |->
                              <<"latest_date", "precedence", "venue_tiebreaker">>]
                    ELSE [winner |-> by_precedence[1],
                          alternates |->
                              alternates_without(candidates, valid_candidates, by_precedence[1]),
                          decision_path |-> <<"latest_date", "precedence">>]

-----
(* dedupe_candidates (worker.py)                                           *)

\* urlparse(url).netloc: after an optional "<scheme>:", the text between a
\* leading "//" and the next "/", "?" or "#"; empty when there is no "//".
netloc(url) ==
    LET colons == {i \in 2..Len(url) : url[i] = ":"
                      /\ \A j \in 1..(i - 1) :
                            url[j] \in Letters}
        rest == IF colons = {} THEN url
                ELSE SubSeq(url, (CHOOSE i \in colons : \A j \in colons : i <= j) + 1,
                            Len(url))
    IN  IF Len(rest) >= 2 /\ rest[1] = "/" /\ rest[2] = "/"
        THEN LET ends == {i \in 3..Len(rest) : rest[i] \in {"/", "?", "#"}}
                 stop == IF ends = {} THEN Len(rest) + 1
                         ELSE CHOOSE i \in ends : \A j \in ends : i <= j
             IN  SubSeq(rest, 3, stop - 1)
        ELSE <<>>

\* Faulty variant: the key keeps the case of venue and city.
dedupe_key_keeps_case(candidate) ==
    <<candidate.date_iso,
      IF candidate.venue # <<>> THEN strip(candidate.venue) ELSE <<>>,
      IF candidate.city # <<>> THEN strip(candidate.city) ELSE <<>>,
      netloc(candidate.url)>>

\* The deduplication key of a candidate.
dedupe_key(candidate) ==
    <<candidate.date_iso,
      IF candidate.venue # <<>> THEN strip(lower(candidate.venue)) ELSE <<>>,
      IF candidate.city # <<>> THEN strip(lower(candidate.city)) ELSE <<>>,
      netloc(candidate.url)>>

\* Faulty variant: the membership test of the loop inverted (repeats are kept, first
\* occurrences dropped).
RECURSIVE dedupe_loop_inverted(_, _, _, _)
dedupe_loop_inverted(candidates, i, seen, unique) ==
    IF i > Len(candidates) THEN unique
    ELSE
      LET key == dedupe_key(candidates[i])
      IN  IF key \in seen
          THEN dedupe_loop_inverted(candidates, i + 1, seen,
                                    Append(unique, candidates[i]))
          ELSE dedupe_loop_inverted(candidates, i + 1, seen \cup {key}, unique)

\* The for loop of dedupe_candidates from position i on.
RECURSIVE dedupe_loop(_, _, _, _)
dedupe_loop(candidates, i, seen, unique) ==
    IF i > Len(candidates) THEN unique
    ELSE
      LET key == dedupe_key(candidates[i])
      IN  IF key \notin seen
          THEN dedupe_loop(candidates, i + 1, seen \cup {key},
                           Append(unique, candidates[i]))
          ELSE dedupe_loop(candidates, i + 1, seen, unique)

dedupe_candidates(candidates) == dedupe_loop(candidates, 1, {}, <<>>)

-----------------------------------------------------------------------------
(* The calls the model makes: texts, candidates and candidate lists        *)

D_TOMORROW  == <<"2", "0", "2", "4", "-", "0", "3", "-", "0", "3">>
D_TODAY     == <<"2", "0", "2", "4", "-", "0", "3", "-", "0", "2">>
D_3_AGO     == <<"2", "0", "2", "4", "-", "0", "2", "-", "2", "8">>
D_4_AGO     == <<"2", "0", "2", "4", "-", "0", "2", "-", "2", "7">>
D_NO_DATE   == <<"2", "0", "2", "4", "-", "0", "2", "-", "3", "0">>

CITY_OAKLAND == <<"o", "a", "k", "l", "a", "n", "d", ",", " ", "c", "a">>
CITY_BRONX   == <<"B", "r", "o", "n", "x">>
CITY_ALBANY  == <<"A", "l", "b", "a", "n", "y">>

VENUE_FILLMORE       == <<"F", "i", "l", "l", "m", "o", "r", "e">>
VENUE_FILLMORE_LOWER == <<"f", "i", "l", "l", "m", "o", "r", "e">>
VENUE_FILLMORE_PAD   == <<" ", "F", "i", "l", "l", "m", "o", "r", "e">>
VENUE_ROXY           == <<"R", "o", "x", "y">>
VENUE_APOLLO         == <<"A", "p", "o", "l", "l", "o">>

SNIPPET_WITH_VENUE == <<"a", "t", " ", "t", "h", "e", " ", "f", "i", "l", "l", "m", "o", "r", "e">>
SNIPPET_PLAIN      == <<"s", "h", "o", "w">>

URL_A1 == <<"h", "t", "t", "p", ":", "/", "/", "a", ".", "c", "o", "/", "1">>
URL_A2 == <<"h", "t", "t", "p", ":", "/", "/", "a", ".", "c", "o", "/", "2">>
URL_B1 == <<"h", "t", "t", "p", ":", "/", "/", "b", ".", "c", "o", "/", "1">>

\* config/venues.json as deployed, and the states of the file the code handles.
VENUES_JSON ==
    [readable |-> TRUE, json |-> [SF |-> <<VENUE_FILLMORE>>, NYC |-> <<VENUE_APOLLO>>]]

VenueFiles == {Unreadable, VENUES_JSON}

\* The metro arguments: the two supported ones and an unsupported one.
Metros == {"SF", "NYC", "LA"}

\* A past, uncancelled show in Oakland reported by the press.
BaseCandidate ==
    [date_iso |-> D_TODAY, city |-> CITY_OAKLAND, venue |-> <<>>, url |-> URL_A1,
     source_type |-> "press", snippet |-> SNIPPET_PLAIN, canceled |-> FALSE,
     source_host |-> None, metro |-> None]

\* Candidates that differ in what the validity filter reads.
ValidityCandidates ==
    {BaseCandidate,
     [BaseCandidate EXCEPT !.date_iso = D_TOMORROW, !.source_type = "venue"],
     [BaseCandidate EXCEPT !.date_iso = D_NO_DATE],
     [BaseCandidate EXCEPT !.canceled = TRUE, !.source_type = "venue"],
     [BaseCandidate EXCEPT !.city = <<>>, !.venue = VENUE_FILLMORE],
     [BaseCandidate EXCEPT !.city = <<>>, !.venue = VENUE_FILLMORE_LOWER],
     [BaseCandidate EXCEPT !.city = <<>>],
     [BaseCandidate EXCEPT !.city = CITY_BRONX, !.venue = VENUE_APOLLO],
     [BaseCandidate EXCEPT !.metro = "NYC"],
     [BaseCandidate EXCEPT !.city = CITY_ALBANY, !.venue = VENUE_ROXY, !.metro = "SF"]}

\* Valid Bay Area candidates that differ in what the ranking reads.
RankingCandidates ==
    {[BaseCandidate EXCEPT !.source_type = st, !.venue = VENUE_FILLMORE,
                           !.snippet = sn] :
        st \in {"venue", "press"}, sn \in {SNIPPET_WITH_VENUE, SNIPPET_PLAIN}}
    \cup {[BaseCandidate EXCEPT !.date_iso = d, !.source_type = st] :
            d \in {D_3_AGO, D_4_AGO}, st \in {"venue", "press"}}
    \cup {[BaseCandidate EXCEPT !.source_type = "generic"]}

SelectPool == ValidityCandidates \cup RankingCandidates

\* The few candidates the long lists are made of.
LongPool ==
    {BaseCandidate,
     [BaseCandidate EXCEPT !.date_iso = D_3_AGO],
     [BaseCandidate EXCEPT !.date_iso = D_3_AGO, !.source_type = "venue"],
     [BaseCandidate EXCEPT !.date_iso = D_TOMORROW, !.source_type = "venue"]}

\* Candidates whose deduplication keys coincide or differ field by field.
DedupePool ==
    LET k == [BaseCandidate EXCEPT !.venue = VENUE_FILLMORE]
    IN  {k,
         [k EXCEPT !.venue = VENUE_FILLMORE_PAD, !.source_type = "venue"],
         [k EXCEPT !.venue = VENUE_FILLMORE_LOWER, !.url = URL_A2],
         [k EXCEPT !.url = URL_B1],
         [k EXCEPT !.date_iso = D_3_AGO],
         [k EXCEPT !.city = <<>>]}

\* Bounds of the enumeration.
MaxShort == 2
MaxLong == 5
MaxDedupe == 3

\* All lists of at most n elements of S.
ListsUpTo(S, n) == UNION {[1..k -> S] : k \in 0..n}

SelectLists == ListsUpTo(SelectPool, MaxShort) \cup ListsUpTo(LongPool, MaxLong)

DedupeLists == ListsUpTo(DedupePool, MaxDedupe)

-----------------------------------------------------------------------------
(* The service                                                             *)

NoRequest == [candidates |-> <<>>, metro |-> None]

\* `result` holds the triple select_latest_candidates returned, or the list
\* dedupe_candidates returned.
NoResult == [winner |-> NoWinner, alternates |-> <<>>, decision_path |-> <<>>,
             unique |-> <<>>]

SelectResult(r) == [NoResult EXCEPT !.winner = r.winner, !.alternates = r.alternates,
                                    !.decision_path = r.decision_path]

DedupeResult(u) == [NoResult EXCEPT !.unique = u]

\* lifespan: the lower-cased allow-list of one metro, empty when the file
\* cannot be read.
LoadWhitelistLower(file, key) ==
    IF ~file.readable THEN {}
    ELSE LET names == Get(file.json, key, <<>>)
         IN  {lower(names[i]) : i \in 1..Len(names)}

\* The process after startup.
Init ==
    /\ venuesFile \in VenueFiles
    /\ sf_venue_whitelist_lower = LoadWhitelistLower(venuesFile, "SF")
    /\ nyc_venue_whitelist_lower = LoadWhitelistLower(venuesFile, "NYC")
    /\ pc = "idle"
    /\ request = NoRequest
    /\ result = NoResult

\* One call of select_latest_candidates(candidates, metro). POST /select-latest
\* makes it after refusing any metro other than SF and NYC; the function
\* itself takes any metro string, so the call is modelled with one more.
select_latest ==
    /\ pc = "idle"
    /\ \E cs \in SelectLists, m \in Metros :
          /\ request' = [candidates |-> cs, metro |-> m]
          /\ result' = SelectResult(select_latest_candidates(cs, m))
    /\ pc' = "select_latest"
    /\ UNCHANGED <<venuesFile, sf_venue_whitelist_lower, nyc_venue_whitelist_lower>>

\* The deduplication step that ends scrape_songkick and parse_generic.
dedupe ==
    /\ pc = "idle"
    /\ \E cs \in DedupeLists :
          /\ request' = [candidates |-> cs, metro |-> None]
          /\ result' = DedupeResult(dedupe_candidates(cs))
    /\ pc' = "dedupe"
    /\ UNCHANGED <<venuesFile, sf_venue_whitelist_lower, nyc_venue_whitelist_lower>>

\* The handler returns; nothing of the call is kept.
Return ==
    /\ pc # "idle"
    /\ pc' = "idle"
    /\ request' = NoRequest
    /\ result' = NoResult
    /\ UNCHANGED <<venuesFile, sf_venue_whitelist_lower, nyc_venue_whitelist_lower>>

Next == select_latest \/ dedupe \/ Return

Spec == Init /\ [][Next]_vars

-----------------------------------------------------------------------------------------------------------------------------------------------------
(* Properties of select_latest_candidates                                  *)

Selected == pc = "select_latest"

Range(s) == {s[i] : i \in 1..Len(s)}

Max(S) == CHOOSE d \in S : \A e \in S : e <= d

\* What the properties say about the request of a select call:
\*   date[i], rank[i]  the parsed date and the source precedence of candidate i
\*   valid             the positions that pass the validity filter
\*   latest            the valid positions that have the latest date among them
\*   near              the other valid positions dated within 3 days of that date
\*   named             the positions whose venue occurs, ignoring case, in their snippet
Facts ==
    LET cs == request.candidates
        pos == 1..Len(cs)
        date == [i \in pos |-> strptime(cs[i].date_iso)]
        valid == {i \in pos : is_valid_candidate(cs[i], request.metro)}
        maxdate == IF valid = {} THEN ValueError ELSE Max({date[i] : i \in valid})
        latest == {i \in valid : date[i] = maxdate}
    IN  [date   |-> date,
         rank   |-> [i \in pos |-> precedence(cs[i])],
         valid  |-> valid,
         latest |-> latest,
         near   |-> {i \in valid \ latest : maxdate - date[i] <= 3},
         named  |-> {i \in pos : /\ cs[i].venue # <<>>
                                 /\ Contains(lower(cs[i].venue), lower(cs[i].snippet))}]

\* p has the highest source precedence among the positions in S.
TopRanked(F, p, S) == p \in S /\ \A j \in S : F.rank[j] <= F.rank[p]

\* Everything select returned: the winner, if any, and the alternates.
Returned ==
    (IF result.winner = NoWinner THEN {} ELSE {result.winner}) \cup Range(result.alternates)

\* C1: select on an empty list, on a list no candidate of which passes the
\* validity filter, or for a metro other than the two supported ones, returns
\* (none, [], ["no_valid_candidates"]).
C1_NoValidCandidates ==
    Selected /\ (Facts.valid = {} \/ request.metro \notin {"SF", "NYC"})
        => /\ result.winner = NoWinner
           /\ result.alternates = <<>>
           /\ result.decision_path = <<"no_valid_candidates">>

\* C1 witness: a non-empty list for a supported metro, none of it valid.
C1_Witness ==
    /\ Selected
    /\ request.metro = "SF"
    /\ Len(request.candidates) = 2
    /\ Facts.valid = {}
    /\ result.decision_path = <<"no_valid_candidates">>

\* C2: the winner and every alternate is a candidate of the request that is not
\* canceled, whose date parses and is not after today, and that belongs to the
\* requested metro.
C2_OnlyValidReturned ==
    Selected =>
        \A p \in Returned :
            /\ p \in 1..Len(request.candidates)
            /\ ~request.candidates[p].canceled
            /\ strptime(request.candidates[p].date_iso) # ValueError
            /\ strptime(request.candidates[p].date_iso) <= Today
            /\ belongs_to_metro(request.candidates[p].city,
                                request.candidates[p].venue, request.metro)

\* C2 witness: a winner dated today with alternates, chosen although a
\* future-dated candidate of higher precedence was offered.
C2_Witness ==
    /\ Selected
    /\ result.winner # NoWinner
    /\ result.alternates # <<>>
    /\ LET F == Facts
       IN  /\ F.date[result.winner] = Today
           /\ \E i \in 1..Len(request.candidates) :
                 F.date[i] > Today /\ F.rank[i] > F.rank[result.winner]

\* C3 as claimed: whenever a candidate is valid, the winner has the latest date
\* of all valid candidates and the path contains "latest_date".
C3_LatestDateAlwaysWins ==
    Selected /\ Facts.valid # {}
        => /\ result.winner \in Facts.latest
           /\ "latest_date" \in Range(result.decision_path)

\* C3 as amended: whenever a candidate is valid, the path contains
\* "latest_date" and the winner is a valid candidate with the latest date,
\* unless the near-tie rule fired ("near_tie_precedence" in the path), in which
\* case the winner is a valid candidate dated at most 3 days before the latest
\* date.
C3_LatestDateOrNearTie ==
    LET F == Facts
    IN  Selected /\ F.valid # {}
            => /\ "latest_date" \in Range(result.decision_path)
               /\ IF "near_tie_precedence" \in Range(result.decision_path)
                  THEN result.winner \in F.latest \cup F.near
                  ELSE result.winner \in F.latest

\* C3 witness: the near-tie rule picked a winner older than the latest date.
C3_Witness ==
    /\ Selected
    /\ "near_tie_precedence" \in Range(result.decision_path)
    /\ result.winner \in Facts.near

\* C4 as claimed: when two or more valid candidates share the latest date, the
\* winner has the highest precedence among them and the path contains
\* "precedence".
C4_TopPrecedenceWinsTie ==
    LET F == Facts
    IN  Selected /\ Cardinality(F.latest) >= 2
            => /\ TopRanked(F, result.winner, F.latest)
               /\ "precedence" \in Range(result.decision_path)

\* C4 as amended: when two or more valid candidates share the latest date, the
\* path contains "precedence" and the winner is one of them; it has the highest
\* precedence among them unless the venue tiebreaker fired ("venue_tiebreaker"
\* in the path), and then it has the highest precedence among those of them
\* whose venue occurs in their own snippet.
C4_TopPrecedenceUnlessVenue ==
    LET F == Facts
    IN  Selected /\ Cardinality(F.latest) >= 2
            => /\ "precedence" \in Range(result.decision_path)
               /\ IF "venue_tiebreaker" \in Range(result.decision_path)
                  THEN TopRanked(F, result.winner, F.latest \cap F.named)
                  ELSE TopRanked(F, result.winner, F.latest)

\* C4 witness: an exact-date tie won by a candidate of lower precedence than
\* another candidate of the same date.
C4_Witness ==
    LET F == Facts
    IN  /\ Selected
        /\ Cardinality(F.latest) >= 2
        /\ "venue_tiebreaker" \in Range(result.decision_path)
        /\ \E j \in F.latest : F.rank[j] > F.rank[result.winner]

\* C5: when exactly one valid candidate has the latest date: if another valid
\* candidate is dated within 3 days of it, the winner has the highest precedence
\* among the latest one and those within the window and the path is
\* ["latest_date", "near_tie_precedence"]; otherwise the latest one wins and the
\* path is ["latest_date"].
C5_NearTiePrecedence ==
    LET F == Facts
    IN  Selected /\ Cardinality(F.latest) = 1
            => IF F.near # {}
               THEN /\ TopRanked(F, result.winner, F.latest \cup F.near)
                    /\ result.decision_path = <<"latest_date", "near_tie_precedence">>
               ELSE /\ result.winner \in F.latest
                    /\ result.decision_path = <<"latest_date">>

\* C5 witness: a sole latest candidate loses to one dated exactly 3 days earlier.
C5_Witness ==
    LET F == Facts
    IN  /\ Selected
        /\ Cardinality(F.latest) = 1
        /\ result.winner \in F.near
        /\ \E i \in F.latest : F.date[result.winner] = F.date[i] - 3
        /\ result.decision_path = <<"latest_date", "near_tie_precedence">>

\* C6: when two or more valid candidates share the latest date: if the venue of
\* one of them occurs (ignoring case) in its own snippet, the winner is the one
\* of highest precedence among those and the path is ["latest_date",
\* "precedence", "venue_tiebreaker"]; otherwise the winner has the highest
\* precedence of them all and the path is ["latest_date", "precedence"].
C6_VenueTiebreaker ==
    LET F == Facts
    IN  Selected /\ Cardinality(F.latest) >= 2
            => IF F.latest \cap F.named # {}
               THEN /\ TopRanked(F, result.winner, F.latest \cap F.named)
                    /\ result.decision_path =
                           <<"latest_date", "precedence", "venue_tiebreaker">>
               ELSE /\ TopRanked(F, result.winner, F.latest)
                    /\ result.decision_path = <<"latest_date", "precedence">>

\* C6 witness: two same-date candidates of different precedence both name their
\* venue in their snippet, and the venue tiebreaker fired.
C6_Witness ==
    LET F == Facts
    IN  /\ Selected
        /\ \E i, j \in F.latest \cap F.named : F.rank[i] < F.rank[j]
        /\ result.decision_path = <<"latest_date", "precedence", "venue_tiebreaker">>

\* C7: the alternates are the first four entries of the date-sorted valid list
\* with the winner removed: with four or more valid candidates they are 3 when
\* the winner is among the first four and 4 otherwise, never more than 4, and
\* never contain the winner.
C7_AlternatesAreTopFourWithoutWinner ==
    Selected /\ result.winner # NoWinner
        => LET NotWinner(i) == i # result.winner
               sorted == sort_by_date(request.candidates,
                                      filter_valid(request.candidates, request.metro))
               top == Take(sorted, 4)
           IN  /\ result.alternates = SelectSeq(top, NotWinner)
               /\ Len(sorted) >= 4 =>
                     Len(result.alternates) =
                         (IF result.winner \in Range(top) THEN 3 ELSE 4)
               /\ Len(result.alternates) <= 4
               /\ result.winner \notin Range(result.alternates)

\* The venue allow-list of a metro: the metro's entry of the venues file.
AllowList(m) == IF venuesFile.readable THEN Get(venuesFile.json, m, <<>>) ELSE <<>>

\* C8: a candidate belongs to metro M iff a locality token of M occurs, ignoring
\* case, in its city, or its venue equals, ignoring case, an entry of M's venue
\* allow-list; with city and venue both empty it never does.
C8_MetroMembership ==
    Selected =>
        \A i \in 1..Len(request.candidates) :
            LET c == request.candidates[i]
                tokens == Get(METRO_TOKENS, request.metro, <<>>)
                allowed == AllowList(request.metro)
            IN  belongs_to_metro(c.city, c.venue, request.metro)
                    <=> /\ ~(c.city = <<>> /\ c.venue = <<>>)
                        /\ \/ \E t \in 1..Len(tokens) :
                                 Contains(lower(tokens[t]), lower(c.city))
                           \/ \E k \in 1..Len(allowed) :
                                 lower(allowed[k]) = lower(c.venue)

\* The values of Candidate.metro.
MetroFieldValues == {None, "SF", "NYC"}

\* C9: select ignores the candidates' metro fields: for every list that differs
\* from the request's only in metro fields, the same positions are valid and
\* select returns the same winner, the same alternates and the same path.
C9_MetroFieldIgnored ==
    Selected =>
        \A f \in [1..Len(request.candidates) -> MetroFieldValues] :
            LET other == [i \in 1..Len(request.candidates) |->
                             [request.candidates[i] EXCEPT !.metro = f[i]]]
            IN  /\ filter_valid(other, request.metro)
                       = filter_valid(request.candidates, request.metro)
                /\ SelectResult(select_latest_candidates(other, request.metro)) = result

-----------------------------------------------------------------------------
(* Properties of dedupe_candidates                                         *)

Deduped == pc = "dedupe"

\* C10: dedupe is idempotent: deduplicating the list dedupe returned gives
\* that list again.
C10_DedupeIdempotent ==
    Deduped => dedupe_candidates(result.unique) = result.unique

\* C10 witness: a call that dropped duplicates and kept more than one candidate.
C10_Witness ==
    /\ Deduped
    /\ Len(result.unique) >= 2
    /\ Len(result.unique) < Len(request.candidates)

\* The key the deduplication is specified by: date, trimmed lower-cased venue,
\* trimmed lower-cased city, host of the url.
KeyOf(c) == <<c.date_iso, lower(strip(c.venue)), lower(strip(c.city)), netloc(c.url)>>

\* The entries of s at the positions in S, in order.
Pick(s, S) ==
    [k \in 1..Cardinality(S) |->
        s[CHOOSE i \in S : Cardinality({j \in S : j <= i}) = k]]

\* C11: dedupe returns exactly the first candidate of each distinct key, in
\* original order and unmodified: no two returned candidates share a key and
\* every key of the input is the key of a returned candidate.
C11_DedupeKeepsFirstPerKey ==
    Deduped =>
        LET cs == request.candidates
            firsts == {i \in 1..Len(cs) : \A j \in 1..(i - 1) : KeyOf(cs[j]) # KeyOf(cs[i])}
            u == result.unique
        IN  /\ u = Pick(cs, firsts)
            /\ \A a, b \in 1..Len(u) : a # b => KeyOf(u[a]) # KeyOf(u[b])
            /\ {KeyOf(cs[i]) : i \in 1..Len(cs)} = {KeyOf(u[a]) : a \in 1..Len(u)}

\* C11 witness: a later candidate with the key of an earlier one but other
\* field values was dropped, and a candidate after it was kept.
C11_Witness ==
    /\ Deduped
    /\ Len(request.candidates) = 3
    /\ KeyOf(request.candidates[1]) = KeyOf(request.candidates[2])
    /\ request.candidates[1] # request.candidates[2]
    /\ result.unique = <<request.candidates[1], request.candidates[3]>>

-----------------------------------------------------------------------------
(* Source precedence in the comparisons of select_latest_candidates        *)

\* The source types candidates carry: the seven of SOURCE_PRECEDENCE, the
\* generic parser's, and the ones wayback_parse_internal prefixes.
SourceTypes ==
    {"venue", "ticketing", "artist", "setlist", "songkick", "bandsintown", "press",
     "generic", "wayback_venue", "wayback_generic"}

\* Two valid Bay Area candidates that differ in source type, dated the same
\* day or 3 days apart.
SourcePairLists ==
    {<<[BaseCandidate EXCEPT !.source_type = a],
       [BaseCandidate EXCEPT !.source_type = b, !.date_iso = d]>> :
        a \in SourceTypes, b \in SourceTypes, d \in {D_TODAY, D_3_AGO}}

\* One call of select_latest_candidates on two candidates of given source types.
select_latest_sources ==
    /\ pc = "idle"
    /\ \E cs \in SourcePairLists :
          /\ request' = [candidates |-> cs, metro |-> "SF"]
          /\ result' = SelectResult(select_latest_candidates(cs, "SF"))
    /\ pc' = "select_latest"
    /\ UNCHANGED <<venuesFile, sf_venue_whitelist_lower, nyc_venue_whitelist_lower>>

NextPrecedence == select_latest_sources \/ Return

SpecPrecedence == Init /\ [][NextPrecedence]_vars

\* The named categories, most trusted first.
NamedSources ==
    <<"venue", "ticketing", "artist", "setlist", "songkick", "bandsintown", "press">>

\* t is more trusted than u: both are named and t comes first, or only t is named.
MoreTrusted(t, u) ==
    \E i \in 1..Len(NamedSources) :
        /\ NamedSources[i] = t
        /\ \A j \in 1..i : NamedSources[j] # u

\* C12: the ranks of the seven named categories are distinct and ordered venue >
\* ticketing > artist > setlist > songkick > bandsintown > press, every other
\* source type ranks 0, and of two candidates select compares by precedence the
\* more trusted one wins.
C12_PrecedenceTotalOrder ==
    Selected /\ Len(request.candidates) = 2 =>
        LET a == request.candidates[1]
            b == request.candidates[2]
            named == {NamedSources[i] : i \in 1..Len(NamedSources)}
        IN  /\ \A c \in {a, b} :
                  /\ c.source_type \notin named => precedence(c) = 0
                  /\ c.source_type \in named => precedence(c) > 0
            /\ MoreTrusted(a.source_type, b.source_type) <=> precedence(a) > precedence(b)
            /\ a.source_type # b.source_type /\ {a.source_type, b.source_type} \subseteq named
                  => precedence(a) # precedence(b)
            /\ Facts.valid = {1, 2} /\ Facts.near \cup Facts.latest = {1, 2}
               /\ Facts.named = {}
                  => /\ MoreTrusted(a.source_type, b.source_type) => result.winner = 1
                     /\ MoreTrusted(b.source_type, a.source_type) => result.winner = 2

\* C12 witness: an archive-prefixed venue page loses a same-date tie to a press
\* report.
C12_Witness ==
    /\ Selected
    /\ Len(request.candidates) = 2
    /\ request.candidates[1].source_type = "wayback_venue"
    /\ request.candidates[2].source_type = "press"
    /\ request.candidates[1].date_iso = request.candidates[2].date_iso
    /\ result.winner = 2

-----------------------------------------------------------------------------
(* validate_date_sanity (worker.py)                                        *)

\* datetime.now().year on the day of Today.
current_year == 2024

\* re.match(r"^(\d{4})-(\d{2})-(\d{2})", date_iso): the three groups, or
\* <<>> when the text does not start that way.
date_match(date_iso) ==
    IF /\ Len(date_iso) >= 10
       /\ IsDigits(SubSeq(date_iso, 1, 4))
       /\ date_iso[5] = "-"
       /\ IsDigits(SubSeq(date_iso, 6, 7))
       /\ date_iso[8] = "-"
       /\ IsDigits(SubSeq(date_iso, 9, 10))
    THEN <<SubSeq(date_iso, 1, 4), SubSeq(date_iso, 6, 7), SubSeq(date_iso, 9, 10)>>
    ELSE <<>>

\* Faulty variant: the day is checked against the length of the month.
validate_date_sanity_month_length(date_iso) ==
    LET groups == date_match(date_iso)
    IN  IF groups = <<>> THEN FALSE
        ELSE LET year == ToInt(groups[1])
                 month == ToInt(groups[2])
                 day == ToInt(groups[3])
             IN  /\ 1900 <= year /\ year <= current_year + 2
                 /\ 1 <= month /\ month <= 12
                 /\ 1 <= day /\ day <= DaysInMonth(year, month)

validate_date_sanity(date_iso) ==
    LET groups == date_match(date_iso)
    IN  IF groups = <<>> THEN FALSE
        ELSE LET year == ToInt(groups[1])
                 month == ToInt(groups[2])
                 day == ToInt(groups[3])
             IN  IF ~(1900 <= year /\ year <= current_year + 2) THEN FALSE
                 ELSE IF ~(1 <= month /\ month <= 12) THEN FALSE
                 ELSE IF ~(1 <= day /\ day <= 31) THEN FALSE
                 ELSE TRUE

\* The texts validate_date_sanity is called with: dates at and around every
\* bound, bare or followed by a time, and texts that start with no date.
YEAR_TEXTS == {<<"1", "8", "9", "9">>, <<"1", "9", "0", "0">>,
               <<"2", "0", "2", "6">>, <<"2", "0", "2", "7">>}

MONTH_TEXTS == {<<"0", "0">>, <<"0", "1">>, <<"0", "2">>, <<"1", "2">>, <<"1", "3">>}

DAY_TEXTS == {<<"0", "0">>, <<"0", "1">>, <<"3", "1">>, <<"3", "2">>}

TIME_SUFFIXES == {<<>>, <<"T", "2", "0", ":", "0", "0">>}

MALFORMED_DATES ==
    {<<>>,
     <<"i", "n", "v", "a", "l", "i", "d">>,
     <<"2", "0", "2", "4", "-", "2", "-", "0", "3">>,
     <<"2", "0", "2", "4", "-", "0", "1", "-", "1">>,
     <<"2", "0", "2", "4", "/", "0", "1", "/", "0", "1">>,
     <<" ", "2", "0", "2", "4", "-", "0", "1", "-", "0", "1">>,
     <<"0", "1", "-", "0", "1", "-", "2", "0", "2", "4">>}

DateTexts ==
    {y \o <<"-">> \o m \o <<"-">> \o d \o t :
        y \in YEAR_TEXTS, m \in MONTH_TEXTS, d \in DAY_TEXTS, t \in TIME_SUFFIXES}
    \cup MALFORMED_DATES

\* One call of validate_date_sanity(date_iso).
call_validate_date_sanity ==
    /\ pc = "idle"
    /\ \E t \in DateTexts :
          /\ request' = [date_iso |-> t]
          /\ result' = [value |-> validate_date_sanity(t)]
    /\ pc' = "validate_date_sanity"
    /\ UNCHANGED <<venuesFile, sf_venue_whitelist_lower, nyc_venue_whitelist_lower>>

NextSanity == call_validate_date_sanity \/ Return

SpecSanity == Init /\ [][NextSanity]_vars

\* The decimal text of n, w digits wide.
Decimal(n, w) == [i \in 1..w |-> DIGITS[((n \div (10 ^ (w - i))) % 10) + 1]]

-----------------------------------------------------------------------------
(* City/State classification (songkick_row_classification.py)              *)

UpperOf == [ch \in DOMAIN IndexIn(LOWERCASE) |-> UPPERCASE[IndexIn(LOWERCASE)[ch]]]

\* str.upper()
upper(s) == [i \in 1..Len(s) |-> IF s[i] \in DOMAIN UpperOf THEN UpperOf[s[i]] ELSE s[i]]

\* \w of the regular expressions.
WordChars == Letters \cup DOMAIN DigitValue \cup {"_"}

\* [A-Za-z .'\-] of CITY_STATE_RE.
CityChars == Letters \cup {" ", ".", "'", "-"}

\* Body applied to the value of v, which is evaluated once.
With(v, Body(_)) == CHOOSE r \in {Body(x) : x \in {v}} : TRUE

\* The smallest member of a non-empty set of positions.
Min(S) == With(S, LAMBDA T : CHOOSE i \in T : \A j \in T : i <= j)

\* Optional[str] None where only emptiness is ever read: no text.
NoText == <<>>

NoMatch == [found |-> FALSE, start |-> 0, end |-> 0, city |-> NoText, state |-> NoText]

\* CITY_STATE_RE matched at position s of txt: a letter on a word boundary,
\* one or more city characters up to the next comma, blanks, the state code on
\* a word boundary, then optionally ", US" (the "USA" alternative is never
\* tried once "US" has matched). `end` is one past the last matched position.
city_state_at(txt, s) ==
    LET commas == {i \in (s + 1)..Len(txt) : txt[i] = ","}
    IN  IF ~(txt[s] \in Letters /\ (s = 1 \/ txt[s - 1] \notin WordChars)) \/ commas = {}
        THEN NoMatch
        ELSE
          LET k == Min(commas)
              rest == {i \in (k + 1)..Len(txt) : txt[i] # " "}
          IN  IF k < s + 2 \/ (\E i \in (s + 1)..(k - 1) : txt[i] \notin CityChars)
                 \/ rest = {}
              THEN NoMatch
              ELSE
                LET j == Min(rest)
                IN  IF /\ j + 1 <= Len(txt)
                       /\ upper(SubSeq(txt, j, j + 1)) \in {<<"N", "Y">>, <<"C", "A">>}
                       /\ (j + 2 > Len(txt) \/ txt[j + 2] \notin WordChars)
                    THEN
                      LET after == {i \in (j + 3)..Len(txt) : txt[i] # " "}
                          country ==
                            /\ j + 2 <= Len(txt) /\ txt[j + 2] = ","
                            /\ after # {}
                            /\ Min(after) + 1 <= Len(txt)
                            /\ upper(SubSeq(txt, Min(after), Min(after) + 1)) = <<"U", "S">>
                      IN  [found |-> TRUE, start |-> s,
                           end   |-> IF country THEN Min(after) + 2 ELSE j + 2,
                           city  |-> SubSeq(txt, s, k - 1),
                           state |-> SubSeq(txt, j, j + 1)]
                    ELSE NoMatch

\* CITY_STATE_RE.search(txt): the match at the leftmost position that has one.
CITY_STATE_RE_search(txt) ==
    LET starts == {s \in 1..Len(txt) : city_state_at(txt, s).found}
    IN  IF starts = {} THEN NoMatch ELSE city_state_at(txt, Min(starts))

NYC_BORO ==
    {<<"n", "e", "w", " ", "y", "o", "r", "k">>,
     <<"m", "a", "n", "h", "a", "t", "t", "a", "n">>,
     <<"b", "r", "o", "o", "k", "l", "y", "n">>,
     <<"b", "k", "l", "y", "n">>,
     <<"q", "u", "e", "e", "n", "s">>,
     <<"b", "r", "o", "n", "x">>,
     <<"s", "t", "a", "t", "e", "n", " ", "i", "s", "l", "a", "n", "d">>}

NYC_FREE == {<<"n", "y", "c">>}

\* SF_CITIES of the source: a name cannot begin with "SF_" here.
sf_cities ==
    {<<"s", "a", "n", " ", "f", "r", "a", "n", "c", "i", "s", "c", "o">>,
     <<"o", "a", "k", "l", "a", "n", "d">>,
     <<"b", "e", "r", "k", "e", "l", "e", "y">>,
     <<"s", "a", "n", " ", "j", "o", "s", "e">>,
     <<"p", "a", "l", "o", " ", "a", "l", "t", "o">>,
     <<"m", "o", "u", "n", "t", "a", "i", "n", " ", "v", "i", "e", "w">>,
     <<"s", "a", "n", "t", "a", " ", "c", "l", "a", "r", "a">>,
     <<"d", "a", "l", "y", " ", "c", "i", "t", "y">>}

\* Faulty variant: any city of a supported state gets the state's metro.
classify_city_state_any_city(txt) ==
    LET match == CITY_STATE_RE_search(txt)
    IN  IF ~match.found THEN [metro |-> None, city |-> NoText]
        ELSE LET state == upper(match.state)
             IN  [metro |-> IF state = <<"N", "Y">> THEN "NYC" ELSE "SF",
                  city |-> strip(match.city) \o <<",", " ">> \o state]

\* classify_city_state_from_text: the pair (metro, city text).
classify_city_state_from_text(txt) ==
    LET match == CITY_STATE_RE_search(txt)
    IN  IF ~match.found THEN [metro |-> None, city |-> NoText]
        ELSE
          LET city == strip(match.city)
              state == upper(match.state)
              city_lower == lower(city)
          IN  IF state = <<"N", "Y">>
              THEN IF city_lower \in NYC_BORO
                   THEN [metro |-> "NYC", city |-> city \o <<",", " ">> \o state]
                   ELSE [metro |-> None, city |-> city \o <<",", " ">> \o state]
              ELSE IF state = <<"C", "A">>
              THEN IF city_lower \in sf_cities
                   THEN [metro |-> "SF", city |-> city \o <<",", " ">> \o state]
                   ELSE [metro |-> None, city |-> city \o <<",", " ">> \o state]
              ELSE [metro |-> None, city |-> NoText]

\* The texts classify_city_state_from_text is called with: a city, a comma,
\* a state code, after some lead-in and before some tail.
CITY_TEXTS ==
    {<<"B", "r", "o", "o", "k", "l", "y", "n">>, <<"B", "R", "O", "O", "K", "L", "Y", "N">>, <<"N", "e", "w", " ", "Y", "o", "r", "k">>, <<"A", "l", "b", "a", "n", "y">>, <<"O", "a", "k", "l", "a", "n", "d">>,
     <<"L", "o", "s", " ", "A", "n", "g", "e", "l", "e", "s">>, <<"B">>, <<"P", "a", "l", "o", " ", "A", "l", "t", "o", " ">>}

STATE_TEXTS == {<<"N", "Y">>, <<"n", "y">>, <<"C", "A">>, <<"T", "X">>}

COMMA_TEXTS == {<<",">>, <<",", " ">>, <<" ">>}

LEAD_TEXTS == {<<>>, <<"1", " ">>, <<"x">>}

TAIL_TEXTS == {<<>>, <<",", " ", "U", "S">>, <<"C">>, <<" ", "A", "l", "b", "a", "n", "y", ",", " ", "N", "Y">>}

CityStateTexts ==
    {l \o c \o s \o st \o t :
        l \in LEAD_TEXTS, c \in CITY_TEXTS, s \in COMMA_TEXTS, st \in STATE_TEXTS,
        t \in TAIL_TEXTS}

\* One call of classify_city_state_from_text(txt).
call_classify_city_state ==
    /\ pc = "idle"
    /\ \E t \in CityStateTexts :
          /\ request' = [txt |-> t]
          /\ result' = classify_city_state_from_text(t)
    /\ pc' = "classify_city_state_from_text"
    /\ UNCHANGED <<venuesFile, sf_venue_whitelist_lower, nyc_venue_whitelist_lower>>

NextCityState == call_classify_city_state \/ Return

SpecCityState == Init /\ [][NextCityState]_vars

\* C20: with no "<City>, <STATE>" match (STATE one of NY, CA) the result is
\* (none, none); otherwise, for the first match, the city text of the result is
\* "<City>, <STATE>" and the metro is the state's metro (NYC for NY, SF for CA)
\* when the city is, ignoring case, in the member set of that state, and none
\* when it is not.
C20_CityStateClassification ==
    pc = "classify_city_state_from_text" =>
        LET match == CITY_STATE_RE_search(request.txt)
            city == strip(match.city)
            state == upper(match.state)
            members == IF state = <<"N", "Y">> THEN NYC_BORO ELSE sf_cities
        IN  IF ~match.found
            THEN result.metro = None /\ result.city = NoText
            ELSE /\ state \in {<<"N", "Y">>, <<"C", "A">>}
                 /\ result.city = city \o <<",", " ">> \o state
                 /\ result.metro =
                       (IF \E member \in members : lower(member) = lower(city)
                        THEN (IF state = <<"N", "Y">> THEN "NYC" ELSE "SF")
                        ELSE None)

\* C20 witness: "Brooklyn, NY, US" is classified (NYC, "Brooklyn, NY").
C20_Witness ==
    /\ pc = "classify_city_state_from_text"
    /\ request.txt = <<"B", "r", "o", "o", "k", "l", "y", "n", ",", " ", "N", "Y", ",", " ", "U", "S">>
    /\ result = [metro |-> "NYC", city |-> <<"B", "r", "o", "o", "k", "l", "y", "n", ",", " ", "N", "Y">>]

-----------------------------------------------------------------------------
(* Row classification (songkick_row_classification.py)                     *)

\* Python's s[start:end] for 0 <= start, with 0-based bounds.
Slice(s, start, end) ==
    IF end > Len(s) THEN SubSeq(s, start + 1, Len(s)) ELSE SubSeq(s, start + 1, end)

\* str.find(t): the 0-based index of the first occurrence of t in s, or -1.
find(s, t) ==
    LET hits == {i \in 1..(Len(s) - Len(t) + 1) : SubSeq(s, i, i + Len(t) - 1) = t}
    IN  IF hits = {} THEN -1 ELSE Min(hits) - 1

max(a, b) == IF a >= b THEN a ELSE b

min(a, b) == IF a <= b THEN a ELSE b

\* "no window" where extract_venue_specific_text returns None.
NoWindow == [none |-> TRUE]

\* The bounds [start, end) of the slice of the row text that
\* extract_venue_specific_text(row, venue) returns stripped, 0-based.
venue_window(full_text, venue) ==
    IF venue = <<>> THEN NoWindow
    ELSE
      With(find(lower(full_text), lower(venue)), LAMBDA venue_index :
        IF venue_index = -1 THEN NoWindow
        ELSE
          LET start == max(0, venue_index - 100)
              end == min(Len(full_text), venue_index + Len(venue) + 100)
          IN  With(Slice(full_text, start, end), LAMBDA venue_text :
                With(CITY_STATE_RE_search(venue_text), LAMBDA city_state_match :
                  IF city_state_match.found
                  THEN LET city_start == city_state_match.start - 1
                           city_end == city_state_match.end - 1
                           start2 == max(0, start + city_start - 50)
                           end2 == min(Len(full_text), start2 + city_end + 50)
                       IN  [none |-> FALSE, start |-> start2, end |-> end2]
                  ELSE [none |-> FALSE, start |-> start, end |-> end])))

\* extract_venue_specific_text(row, venue), given the text of the row; NoText
\* stands for None (the callers only test the result for emptiness).
extract_venue_specific_text(full_text, venue) ==
    With(venue_window(full_text, venue), LAMBDA window :
      IF window.none THEN NoText
      ELSE strip(Slice(full_text, window.start, window.end)))

\* Faulty variant: the alias "nyc" counts only with " ny " in the text.
fallback_tokens_alias_needs_ny(txt) ==
    LET txt_lower == lower(txt)
    IN  IF \E boro \in NYC_BORO : Contains(boro, txt_lower) THEN "NYC"
        ELSE IF Contains(<<"n", "y", "c">>, txt_lower) /\ Contains(<<" ", "n", "y", " ">>, txt_lower) THEN "NYC"
        ELSE IF \E city \in sf_cities : Contains(city, txt_lower) THEN "SF"
        ELSE None

\* fallback_tokens_to_metro
fallback_tokens_to_metro(txt) ==
    LET txt_lower == lower(txt)
    IN  IF \E boro \in NYC_BORO : Contains(boro, txt_lower) THEN "NYC"
        ELSE IF Contains(<<"n", "y", "c">>, txt_lower) /\ Contains(<<" ", "n", "y", " ">>, txt_lower) THEN "NYC"
        ELSE IF Contains(<<"n", "y", "c">>, txt_lower) THEN "NYC"
        ELSE IF \E city \in sf_cities : Contains(city, txt_lower) THEN "SF"
        ELSE IF Contains(<<"b", "a", "y", " ", "a", "r", "e", "a">>, txt_lower) /\ Contains(<<"s", "a", "n", " ", "f", "r", "a", "n", "c", "i", "s", "c", "o">>, txt_lower)
        THEN "SF"
        ELSE None

\* The text t occurs in s at position i.
StartsAt(s, i, t) == i + Len(t) - 1 <= Len(s) /\ SubSeq(s, i, i + Len(t) - 1) = t

\* The position after the run of digits that starts at position p of s.
DigitsEnd(s, p) ==
    LET others == {i \in p..Len(s) : s[i] \notin DOMAIN DigitValue}
    IN  IF others = {} THEN Len(s) + 1 ELSE Min(others)

\* re.compile(r"/metro-areas/\d+-(?:us-)?<name>\b", re.I).search(href)
metro_slug_search(href, name) ==
    LET h == lower(href)
        Name(q) == /\ StartsAt(h, q, name)
                   /\ (q + Len(name) > Len(h) \/ h[q + Len(name)] \notin WordChars)
    IN  \E i \in 1..Len(h) :
            /\ StartsAt(h, i, <<"/", "m", "e", "t", "r", "o", "-", "a", "r", "e", "a", "s", "/">>)
            /\ LET e == DigitsEnd(h, i + 13)
               IN  /\ e > i + 13
                   /\ StartsAt(h, e, <<"-">>)
                   /\ (Name(e + 1) \/ (StartsAt(h, e + 1, <<"u", "s", "-">>) /\ Name(e + 4)))

NYC_METRO_SLUG_RE_search(href) == metro_slug_search(href, <<"n", "e", "w", "-", "y", "o", "r", "k", "-", "n", "y">>)

\* SF_METRO_SLUG_RE of the source (a name cannot begin with "SF_" here).
sf_metro_slug_re_search(href) == metro_slug_search(href, <<"s", "a", "n", "-", "f", "r", "a", "n", "c", "i", "s", "c", "o", "-", "b", "a", "y", "-", "a", "r", "e", "a">>)

\* resolve_songkick_metro(row), given the links of the row in document order:
\* the pair (metro, text of the link).
RECURSIVE resolve_songkick_metro_from(_, _)
resolve_songkick_metro_from(links, i) ==
    IF i > Len(links) THEN [metro |-> None, text |-> NoText]
    ELSE IF NYC_METRO_SLUG_RE_search(links[i].href)
    THEN [metro |-> "NYC", text |-> links[i].text]
    ELSE IF sf_metro_slug_re_search(links[i].href)
    THEN [metro |-> "SF", text |-> links[i].text]
    ELSE resolve_songkick_metro_from(links, i + 1)

resolve_songkick_metro(links) == resolve_songkick_metro_from(links, 1)

\* str.split("T")[0]: the text before the first "T".
before_T(s) ==
    LET ts == {i \in 1..Len(s) : s[i] = "T"}
    IN  IF ts = {} THEN s ELSE SubSeq(s, 1, Min(ts) - 1)

\* The text of the first link of the row whose href satisfies Test, or no text.
first_link_text(links, Test(_)) ==
    LET hits == {i \in 1..Len(links) : Test(links[i].href)}
    IN  IF hits = {} THEN NoText ELSE links[Min(hits)].text

\* " ".join(text.split()): runs of blanks collapsed, none at either end.
collapse_blanks(s) ==
    LET t == strip(s)
        keep == {i \in 1..Len(t) : ~(t[i] = " " /\ t[i - 1] = " ")}
    IN  Pick(t, keep)

\* "no candidate" where a function returns Optional[dict].
NoCandidate == [none |-> TRUE]

\* Faulty variant: the allow-list is consulted before the other strategies.
extract_songkick_row_candidate_rescue_first(time_tag, row, page_url, sf_lower, nyc_lower) ==
    IF time_tag.datetime = <<>> THEN NoCandidate
    ELSE
      LET date_iso == before_T(time_tag.datetime)
          HasVenues(href) == Contains(<<"/", "v", "e", "n", "u", "e", "s", "/">>, href)
      IN
      With(first_link_text(row.links, HasVenues), LAMBDA venue :
      With(resolve_songkick_metro(row.links), LAMBDA slug :
      With(extract_venue_specific_text(row.text, venue), LAMBDA venue_specific_text :
      With(IF slug.metro = None /\ venue_specific_text # NoText
           THEN classify_city_state_from_text(venue_specific_text)
           ELSE [metro |-> slug.metro, city |-> NoText], LAMBDA by_city :
        LET by_token == IF by_city.metro = None /\ venue_specific_text # NoText
                        THEN fallback_tokens_to_metro(venue_specific_text)
                        ELSE by_city.metro
            metro == IF venue # <<>> /\ lower(venue) \in nyc_lower THEN "NYC"
                     ELSE IF venue # <<>> /\ lower(venue) \in sf_lower THEN "SF"
                     ELSE by_token
            city == IF metro = "NYC" /\ by_city.city = NoText THEN <<"N", "e", "w", " ", "Y", "o", "r", "k", ",", " ", "N", "Y">>
                    ELSE IF metro = "SF" /\ by_city.city = NoText THEN <<"S", "a", "n", " ", "F", "r", "a", "n", "c", "i", "s", "c", "o", ",", " ", "C", "A">>
                    ELSE by_city.city
            snippet == IF venue_specific_text # NoText THEN venue_specific_text
                       ELSE collapse_blanks(row.text)
        IN  [none |-> FALSE, date_iso |-> date_iso, metro |-> metro, city |-> city,
             venue |-> venue, snippet |-> snippet, source_type |-> "songkick",
             source_host |-> <<"w", "w", "w", ".", "s", "o", "n", "g", "k", "i", "c", "k", ".", "c", "o", "m">>, url |-> page_url]))))

\* extract_songkick_row_candidate(time_tag, page_url, sf..., nyc...), given the
\* datetime attribute of the time tag and the links and text of its row.
extract_songkick_row_candidate(time_tag, row, page_url, sf_lower, nyc_lower) ==
    IF time_tag.datetime = <<>> THEN NoCandidate
    ELSE
      LET date_iso == before_T(time_tag.datetime)
          HasVenues(href) == Contains(<<"/", "v", "e", "n", "u", "e", "s", "/">>, href)
      IN
      With(first_link_text(row.links, HasVenues), LAMBDA venue :
      With(resolve_songkick_metro(row.links), LAMBDA slug :
      With(extract_venue_specific_text(row.text, venue), LAMBDA venue_specific_text :
      With(IF slug.metro = None /\ venue_specific_text # NoText
           THEN classify_city_state_from_text(venue_specific_text)
           ELSE [metro |-> slug.metro, city |-> NoText], LAMBDA by_city :
        LET by_token == IF by_city.metro = None /\ venue_specific_text # NoText
                        THEN fallback_tokens_to_metro(venue_specific_text)
                        ELSE by_city.metro
            metro == IF by_token = None /\ venue # <<>>
                     THEN IF lower(venue) \in nyc_lower THEN "NYC"
                          ELSE IF lower(venue) \in sf_lower THEN "SF"
                          ELSE None
                     ELSE by_token
            city == IF metro = "NYC" /\ by_city.city = NoText THEN <<"N", "e", "w", " ", "Y", "o", "r", "k", ",", " ", "N", "Y">>
                    ELSE IF metro = "SF" /\ by_city.city = NoText THEN <<"S", "a", "n", " ", "F", "r", "a", "n", "c", "i", "s", "c", "o", ",", " ", "C", "A">>
                    ELSE by_city.city
            snippet == IF venue_specific_text # NoText THEN venue_specific_text
                       ELSE collapse_blanks(row.text)
        IN  [none |-> FALSE, date_iso |-> date_iso, metro |-> metro, city |-> city,
             venue |-> venue, snippet |-> snippet, source_type |-> "songkick",
             source_host |-> <<"w", "w", "w", ".", "s", "o", "n", "g", "k", "i", "c", "k", ".", "c", "o", "m">>, url |-> page_url]))))

-----------------------------------------------------------------------------
(* parse_date (worker.py)                                                  *)

\* re.search(r"(\d{4}-\d{2}-\d{2})", date_text): the first such substring, or
\* no text.
iso_match(date_text) ==
    LET hits == {i \in 1..(Len(date_text) - 9) : date_match(SubSeq(date_text, i, i + 9)) # <<>>}
    IN  IF hits = {} THEN NoText ELSE SubSeq(date_text, Min(hits), Min(hits) + 9)

\* The alternatives of (on|at|playing|performed|shows?|concert) in the order the
\* expression tries them; "shows" stands before "show" for the greedy "s?".
FILLER_WORDS ==
    <<<<"o", "n">>, <<"a", "t">>, <<"p", "l", "a", "y", "i", "n", "g">>, <<"p", "e", "r", "f", "o", "r", "m", "e", "d">>, <<"s", "h", "o", "w", "s">>, <<"s", "h", "o", "w">>, <<"c", "o", "n", "c", "e", "r", "t">>>>

\* re.sub(r"(on|at|playing|performed|shows?|concert)", "", text, flags=re.IGNORECASE)
\* from position i on.
RECURSIVE remove_fillers(_, _)
remove_fillers(text, i) ==
    IF i > Len(text) THEN <<>>
    ELSE
      LET hits == {k \in 1..Len(FILLER_WORDS) : StartsAt(lower(text), i, FILLER_WORDS[k])}
      IN  IF hits = {} THEN <<text[i]>> \o remove_fillers(text, i + 1)
          ELSE remove_fillers(text, i + Len(FILLER_WORDS[Min(hits)]))

\* dateutil's parser.parse(clean_text, fuzzy=True) on the texts the model
\* feeds it: the date it returns (missing fields taken from today), as
\* strftime("%Y-%m-%d") prints it; any other text raises.
DATEUTIL_PARSES ==
    {<<<<"J", "a", "n", "u", "a", "r", "y", " ", "1", "5", ",", " ", "2", "0", "2", "4">>, <<"2", "0", "2", "4", "-", "0", "1", "-", "1", "5">>>>,
     <<<<"1", "5", " ", "J", "a", "n", " ", "2", "0", "2", "4">>, <<"2", "0", "2", "4", "-", "0", "1", "-", "1", "5">>>>,
     <<<<"J", "a", "n", "u", "a", "r", "y">>, <<"2", "0", "2", "4", "-", "0", "1", "-", "0", "2">>>>,
     <<<<"2", "0", "2", "4">>, <<"2", "0", "2", "4", "-", "0", "3", "-", "0", "2">>>>,
     <<<<"J", "a", "n", " ", "1", "5">>, <<"2", "0", "2", "4", "-", "0", "1", "-", "1", "5">>>>,
     <<<<"T", "u", "e", "s", "d", "a", "y">>, <<"2", "0", "2", "4", "-", "0", "3", "-", "0", "5">>>>}

date_parser_parse(clean_text) ==
    IF \E p \in DATEUTIL_PARSES : p[1] = clean_text
    THEN (CHOOSE p \in DATEUTIL_PARSES : p[1] = clean_text)[2]
    ELSE NoText

MONTH_NAMES ==
    {<<"j", "a", "n">>, <<"f", "e", "b">>, <<"m", "a", "r">>, <<"a", "p", "r">>, <<"m", "a", "y">>, <<"j", "u", "n">>, <<"j", "u", "l">>, <<"a", "u", "g">>,
     <<"s", "e", "p">>, <<"o", "c", "t">>, <<"n", "o", "v">>, <<"d", "e", "c">>}

\* The month indicator: a month name or abbreviation, or one or two digits, a
\* slash or hyphen, one or two digits (every full month name starts with its
\* abbreviation, so the abbreviations decide).
has_month(clean_text) ==
    \/ \E m \in MONTH_NAMES : Contains(m, lower(clean_text))
    \/ \E i \in 1..(Len(clean_text) - 2) :
          /\ clean_text[i] \in DOMAIN DigitValue
          /\ clean_text[i + 1] \in {"/", "-"}
          /\ clean_text[i + 2] \in DOMAIN DigitValue

\* re.search(r"(\d{1,2}(?:st|nd|rd|th)?)", clean_text)
has_day(clean_text) == \E i \in 1..Len(clean_text) : clean_text[i] \in DOMAIN DigitValue

\* re.search(r"\b\d{4}\b", clean_text)
has_year(clean_text) ==
    \E i \in 1..(Len(clean_text) - 3) :
        /\ IsDigits(SubSeq(clean_text, i, i + 3))
        /\ (i = 1 \/ clean_text[i - 1] \notin WordChars)
        /\ (i + 4 > Len(clean_text) \/ clean_text[i + 4] \notin WordChars)

\* Faulty variant: a text that is only a year is not rejected.
parse_date_keeps_year_only(date_text) ==
    IF date_text = <<>> THEN NoText
    ELSE IF iso_match(date_text) # NoText THEN iso_match(date_text)
    ELSE
      LET clean_text == strip(remove_fillers(date_text, 1))
          parsed_date == date_parser_parse(clean_text)
      IN  IF parsed_date = NoText THEN NoText
          ELSE IF ~has_month(clean_text) /\ ~has_day(clean_text) THEN NoText
          ELSE IF (has_month(clean_text) \/ has_day(clean_text)) /\ ~has_year(clean_text)
          THEN NoText
          ELSE parsed_date

\* parse_date: the ISO text, or no text for None.
parse_date(date_text) ==
    IF date_text = <<>> THEN NoText
    ELSE IF iso_match(date_text) # NoText THEN iso_match(date_text)
    ELSE
      LET clean_text == strip(remove_fillers(date_text, 1))
          parsed_date == date_parser_parse(clean_text)
      IN  IF parsed_date = NoText THEN NoText
          ELSE IF Len(clean_text) = 4 /\ IsDigits(clean_text) THEN NoText
          ELSE IF ~has_month(clean_text) /\ ~has_day(clean_text) THEN NoText
          ELSE IF (has_month(clean_text) \/ has_day(clean_text)) /\ ~has_year(clean_text)
          THEN NoText
          ELSE parsed_date

-----------------------------------------------------------------------------
(* Row extraction in scrape_songkick (worker.py)                           *)

\* VENUE_HREF_RE.search(href): "/venues/" and a digit.
VENUE_HREF_RE_search(href) ==
    \E i \in 1..Len(href) :
        /\ StartsAt(href, i, <<"/", "v", "e", "n", "u", "e", "s", "/">>)
        /\ i + 8 <= Len(href) /\ href[i + 8] \in DOMAIN DigitValue

\* METRO_HREF_RE.search(href): "/metro-areas/" and a digit.
METRO_HREF_RE_search(href) ==
    \E i \in 1..Len(href) :
        /\ StartsAt(href, i, <<"/", "m", "e", "t", "r", "o", "-", "a", "r", "e", "a", "s", "/">>)
        /\ i + 13 <= Len(href) /\ href[i + 13] \in DOMAIN DigitValue

\* extract_row_candidate(time_tag, page_url), given the datetime attribute and
\* the text of the time tag and the links, the text of the location element
\* (empty when there is none) and the text of its row.
extract_row_candidate(time_tag, row, page_url) ==
    LET date_iso == IF time_tag.datetime # <<>> THEN time_tag.datetime
                    ELSE IF time_tag.text = <<>> THEN NoText
                    ELSE parse_date(time_tag.text)
        venue == first_link_text(row.links, VENUE_HREF_RE_search)
        city == IF \E i \in 1..Len(row.links) : METRO_HREF_RE_search(row.links[i].href)
                THEN first_link_text(row.links, METRO_HREF_RE_search)
                ELSE row.location
    IN  IF date_iso = NoText THEN NoCandidate
        ELSE IF city = <<>> /\ venue = <<>> THEN NoCandidate
        ELSE [none |-> FALSE, date_iso |-> date_iso, metro |-> None, city |-> city,
              venue |-> venue, snippet |-> collapse_blanks(row.text),
              source_type |-> "songkick", source_host |-> netloc(page_url),
              url |-> page_url]

\* any(word in text.lower() for word in words)
any_word_in(words, text) == \E w \in words : Contains(w, lower(text))

CANCELED_WORDS == {<<"c", "a", "n", "c", "e", "l", "e", "d">>, <<"c", "a", "n", "c", "e", "l", "l", "e", "d">>, <<"p", "o", "s", "t", "p", "o", "n", "e", "d">>, <<"r", "e", "s", "c", "h", "e", "d", "u", "l", "e", "d">>}

UPCOMING_WORDS == {<<"u", "p", "c", "o", "m", "i", "n", "g">>, <<"o", "n", " ", "s", "a", "l", "e">>, <<"p", "r", "e", "s", "a", "l", "e">>, <<"t", "i", "c", "k", "e", "t", "s">>}

\* Candidate(...) built from the dict a row extractor returned.
CandidateOf(candidate_data, canceled) ==
    [date_iso |-> candidate_data.date_iso, city |-> candidate_data.city,
     venue |-> candidate_data.venue, url |-> candidate_data.url,
     source_type |-> candidate_data.source_type, snippet |-> candidate_data.snippet,
     canceled |-> canceled, source_host |-> candidate_data.source_host,
     metro |-> candidate_data.metro]

\* The body of the loop over time tags in scrape_songkick: the candidates (none
\* or one) it appends for one time tag. row.classifier_raises stands for an
\* exception inside extract_songkick_row_candidate.
scrape_time_tag(time_tag, row, page_url, sf_lower, nyc_lower) ==
    With(IF row.classifier_raises THEN NoCandidate
         ELSE extract_songkick_row_candidate(time_tag, row, page_url, sf_lower, nyc_lower),
         LAMBDA new :
    With(IF new.none THEN extract_row_candidate(time_tag, row, page_url) ELSE new,
         LAMBDA candidate_data :
      IF candidate_data.none THEN <<>>
      ELSE IF ~validate_date_sanity(candidate_data.date_iso) THEN <<>>
      ELSE IF any_word_in(UPCOMING_WORDS, candidate_data.snippet) THEN <<>>
      ELSE <<CandidateOf(candidate_data, any_word_in(CANCELED_WORDS, candidate_data.snippet))>>))

\* METRO_TOKENS.get("SF", []) + METRO_TOKENS.get("NYC", []) and the first token
\* of a token list that occurs, ignoring case, in one of the texts.
first_token_in(tokens, texts) ==
    LET hits == {i \in 1..Len(tokens) : \E t \in texts : Contains(lower(tokens[i]), lower(t))}
    IN  IF hits = {} THEN <<>> ELSE tokens[Min(hits)]

\* Python's text[:n]
Prefix(text, n) == SubSeq(text, 1, min(n, Len(text)))

\* The body of the loop over date elements in the page-level fallback of
\* scrape_songkick (taken only when the page has no time tag with a datetime
\* attribute): the candidates it appends for one element, given the text of
\* the element and of its parent (has_parent tells whether there is one).
scrape_fallback_element(elem, url) ==
    LET date_iso == parse_date(elem.text)
    IN  IF date_iso = NoText \/ ~validate_date_sanity(date_iso) THEN <<>>
        ELSE IF ~elem.has_parent THEN <<>>
        ELSE <<[date_iso |-> date_iso,
                city |-> first_token_in(METRO_TOKENS.SF \o METRO_TOKENS.NYC,
                                        {elem.parent_text}),
                venue |-> <<>>, url |-> url, source_type |-> "songkick",
                snippet |-> Prefix(elem.parent_text, 500), canceled |-> FALSE,
                source_host |-> netloc(url), metro |-> None]>>

-----------------------------------------------------------------------------
(* The generic parser (worker.py)                                          *)

\* One pattern of extract_venue_from_snippet,
\*     <intro><run>+ or <run>* ([^,\n]+?) (?:\s+in | \s*[,] | \s*$),
\* searched in the snippet ignoring case: the stripped capture of the leftmost
\* match, or no text when nothing matches. The run is greedy and gives one
\* character back when the capture could not start otherwise; the lazy capture
\* ends at the first place where one of the endings matches. Blanks are the
\* only white space of the texts.
venue_pattern_search(snippet, intro, run_chars, min_run, in_ends) ==
    With(lower(snippet), LAMBDA s :
    LET n == Len(s)
        RunEnd(p) == LET others == {i \in p..n : s[i] \notin run_chars}
                     IN  IF others = {} THEN n + 1 ELSE Min(others)
        NonBlank(p) == LET others == {i \in p..n : s[i] # " "}
                       IN  IF others = {} THEN n + 1 ELSE Min(others)
        Ends(e) == \/ in_ends /\ NonBlank(e) > e /\ StartsAt(s, NonBlank(e), <<"i", "n">>)
                   \/ NonBlank(e) = n + 1
                   \/ s[NonBlank(e)] = ","
        \* where the capture starts for the match at i, or 0 when there is none
        CaptureStart(i) ==
            LET first == i + Len(intro)
                last == RunEnd(first)
            IN  IF last - first < min_run THEN 0
                ELSE IF last <= n /\ s[last] # "," THEN last
                ELSE IF last - 1 - first >= min_run /\ last - 1 >= first THEN last - 1
                ELSE 0
        starts == {i \in 1..n : StartsAt(s, i, intro) /\ CaptureStart(i) # 0}
    IN  IF starts = {} THEN [found |-> FALSE, venue |-> NoText]
        ELSE LET c == CaptureStart(Min(starts))
                 e == Min({k \in (c + 1)..(n + 1) : Ends(k)})
             IN  [found |-> TRUE, venue |-> strip(SubSeq(snippet, c, e - 1))])

\* The em dash of the second pattern, written with an ASCII character that
\* occurs in no other text.
EM_DASH == "^"

\* The four patterns of extract_venue_from_snippet, in order.
venue_patterns(snippet) ==
    <<venue_pattern_search(snippet, <<"a", "t">>, {" "}, 1, TRUE),
      venue_pattern_search(snippet, <<EM_DASH>>, {" "}, 0, FALSE),
      venue_pattern_search(snippet, <<"@">>, {" "}, 1, FALSE),
      venue_pattern_search(snippet, <<"v", "e", "n", "u", "e">>, {":", " "}, 1, FALSE)>>

\* extract_venue_from_snippet: the venue of the first pattern whose match is
\* longer than 3 and shorter than 100 characters, or no text.
extract_venue_from_snippet(snippet) ==
    With(venue_patterns(snippet), LAMBDA found :
      LET good == {k \in 1..Len(found) :
                      found[k].found /\ Len(found[k].venue) > 3 /\ Len(found[k].venue) < 100}
      IN  IF good = {} THEN NoText ELSE found[Min(good)].venue)

\* infer_source_type
infer_source_type(url) ==
    LET hostname == lower(netloc(url))
    IN  IF Contains(<<"s", "o", "n", "g", "k", "i", "c", "k", ".", "c", "o", "m">>, hostname) THEN "songkick"
        ELSE IF Contains(<<"b", "a", "n", "d", "s", "i", "n", "t", "o", "w", "n", ".", "c", "o", "m">>, hostname) THEN "bandsintown"
        ELSE IF \E t \in {<<"t", "i", "c", "k", "e", "t", "m", "a", "s", "t", "e", "r", ".", "c", "o", "m">>, <<"a", "x", "s", ".", "c", "o", "m">>, <<"e", "v", "e", "n", "t", "b", "r", "i", "t", "e", ".", "c", "o", "m">>, <<"d", "i", "c", "e", ".", "f", "m">>} :
                   Contains(t, hostname)
        THEN "ticketing"
        ELSE IF Contains(<<"s", "e", "t", "l", "i", "s", "t", ".", "f", "m">>, hostname) THEN "setlist"
        ELSE IF \E v \in {<<"t", "h", "e", "i", "n", "d", "e", "p", "e", "n", "d", "e", "n", "t", ".", "c", "o", "m">>, <<"t", "h", "e", "f", "i", "l", "l", "m", "o", "r", "e", ".", "c", "o", "m">>,
                          <<"g", "r", "e", "a", "t", "a", "m", "e", "r", "i", "c", "a", "n", "m", "u", "s", "i", "c", "h", "a", "l", "l", ".", "c", "o", "m">>} : Contains(v, hostname)
        THEN "venue"
        ELSE "press"

\* The date of a date element: the first 10 characters of the datetime
\* attribute of a time element, else parse_date of its text.
element_date(elem) ==
    IF elem.is_time /\ elem.datetime # <<>> THEN Prefix(elem.datetime, 10)
    ELSE parse_date(elem.text)

\* "a or b" for two texts
Or(a, b) == IF a # <<>> THEN a ELSE b

UPCOMING_WORDS_GENERIC ==
    {<<"u", "p", "c", "o", "m", "i", "n", "g">>, <<"o", "n", " ", "s", "a", "l", "e">>, <<"p", "r", "e", "s", "a", "l", "e">>, <<"t", "i", "c", "k", "e", "t", "s", " ", "a", "v", "a", "i", "l", "a", "b", "l", "e">>}

\* The body of the loop over date elements in parse_generic: the candidates
\* (none or one) it appends for one element, given the texts of the element,
\* of its parent and of its grandparent (empty when there is none).
parse_generic_element(elem, source_url) ==
    LET date_iso == element_date(elem)
        city == first_token_in(METRO_TOKENS.SF \o METRO_TOKENS.NYC,
                               {elem.parent_text, elem.grandparent_text})
        venue == Or(extract_venue_from_snippet(elem.parent_text),
                    extract_venue_from_snippet(elem.grandparent_text))
        text_content == elem.parent_text \o <<" ">> \o elem.grandparent_text
    IN  IF date_iso = NoText \/ ~validate_date_sanity(date_iso) THEN <<>>
        ELSE IF any_word_in(UPCOMING_WORDS_GENERIC, text_content) THEN <<>>
        ELSE <<[date_iso |-> date_iso, city |-> city, venue |-> venue,
                url |-> source_url, source_type |-> infer_source_type(source_url),
                snippet |-> IF elem.parent_text # <<>> THEN Prefix(elem.parent_text, 500)
                            ELSE Prefix(elem.text, 500),
                canceled |-> any_word_in(CANCELED_WORDS, text_content),
                source_host |-> netloc(source_url), metro |-> None]>>

\* The body of the loop over date elements in parse_generic_internal.
parse_generic_internal_element(elem, url) ==
    LET date_iso == element_date(elem)
        city == first_token_in(METRO_TOKENS.SF \o METRO_TOKENS.NYC,
                               {elem.parent_text, elem.grandparent_text})
        venue == Or(extract_venue_from_snippet(elem.parent_text),
                    extract_venue_from_snippet(elem.grandparent_text))
        snippet_text == Or(elem.parent_text, elem.grandparent_text)
    IN  IF date_iso = NoText \/ ~validate_date_sanity(date_iso) THEN <<>>
        ELSE IF city = <<>> /\ venue = <<>> THEN <<>>
        ELSE <<[date_iso |-> date_iso, city |-> city, venue |-> venue,
                url |-> url, source_type |-> "generic",
                snippet |-> Prefix(snippet_text, 200),
                canceled |-> any_word_in(CANCELED_WORDS, snippet_text),
                source_host |-> None, metro |-> None]>>

-----------------------------------------------------------------------------
(* The extraction steps as calls: rows and elements of fetched pages       *)

SONGKICK_URL == <<"h", "t", "t", "p", "s", ":", "/", "/", "w", "w", "w", ".", "s", "o", "n", "g", "k", "i", "c", "k", ".", "c", "o", "m", "/", "a", "r", "t", "i", "s", "t", "s", "/", "1", "/", "g", "i", "g", "o", "g", "r", "a", "p", "h", "y", "?", "p", "a", "g", "e", "=", "1">>

\* <time> tags: the datetime attribute and the text.
TimeTags ==
    {[datetime |-> d, text |-> <<>>] :
        d \in {<<"2", "0", "2", "4", "-", "0", "2", "-", "2", "7">>, <<"2", "0", "2", "4", "-", "0", "2", "-", "2", "7", "T", "2", "0", ":", "0", "0", ":", "0", "0", "-", "0", "4", "0", "0">>, <<"2", "0", "2", "4", "-", "0", "2", "-", "3", "1">>,
               <<"2", "0", "2", "4", "-", "0", "2", "-", "2", "7", " ", "2", "0", ":", "0", "0">>, <<"1", "8", "9", "9", "-", "0", "2", "-", "2", "7">>}}
    \cup {[datetime |-> <<>>, text |-> t] :
            t \in {<<>>, <<"J", "a", "n", "u", "a", "r", "y", " ", "1", "5", ",", " ", "2", "0", "2", "4">>, <<"o", "n", " ", "2", "0", "2", "4", "-", "0", "2", "-", "3", "1">>, <<"J", "a", "n", "u", "a", "r", "y">>}}

VENUE_LINK == [href |-> <<"/", "v", "e", "n", "u", "e", "s", "/", "1", "7", "-", "t", "h", "e", "-", "f", "i", "l", "l", "m", "o", "r", "e">>, text |-> <<"T", "h", "e", " ", "F", "i", "l", "l", "m", "o", "r", "e">>]

VENUE_LINK_NO_ID == [href |-> <<"/", "v", "e", "n", "u", "e", "s", "/", "r", "o", "x", "y">>, text |-> <<"R", "o", "x", "y">>]

NYC_METRO_LINK ==
    [href |-> <<"/", "m", "e", "t", "r", "o", "-", "a", "r", "e", "a", "s", "/", "7", "6", "4", "4", "-", "u", "s", "-", "n", "e", "w", "-", "y", "o", "r", "k", "-", "n", "y">>, text |-> <<"N", "e", "w", " ", "Y", "o", "r", "k", ",", " ", "N", "Y", ",", " ", "U", "S">>]

LA_METRO_LINK ==
    [href |-> <<"/", "m", "e", "t", "r", "o", "-", "a", "r", "e", "a", "s", "/", "1", "7", "8", "3", "5", "-", "u", "s", "-", "l", "o", "s", "-", "a", "n", "g", "e", "l", "e", "s", "-", "c", "a">>, text |-> <<"L", "o", "s", " ", "A", "n", "g", "e", "l", "e", "s", ",", " ", "C", "A", ",", " ", "U", "S">>]

ARTIST_LINK == [href |-> <<"/", "a", "r", "t", "i", "s", "t", "s", "/", "1">>, text |-> <<"A", "r", "t", "i", "s", "t">>]

RowLinks ==
    {<<>>, <<ARTIST_LINK>>, <<VENUE_LINK>>, <<VENUE_LINK_NO_ID>>,
     <<ARTIST_LINK, VENUE_LINK, NYC_METRO_LINK>>, <<VENUE_LINK, LA_METRO_LINK>>}

RowTexts ==
    {<<"A", "r", "t", "i", "s", "t", " ", "T", "h", "e", " ", "F", "i", "l", "l", "m", "o", "r", "e", " ", "O", "a", "k", "l", "a", "n", "d", ",", " ", "C", "A">>,
     <<"A", "r", "t", "i", "s", "t", " ", "T", "h", "e", " ", "F", "i", "l", "l", "m", "o", "r", "e", " ", "c", "a", "n", "c", "e", "l", "e", "d">>,
     <<"A", "r", "t", "i", "s", "t", " ", " ", "R", "o", "x", "y", " ", "t", "i", "c", "k", "e", "t", "s">>,
     <<"A", "r", "t", "i", "s", "t", " ", "l", "i", "v", "e">>}

\* The rows nearest_row returns: links in document order, the text of the
\* location element (empty when there is none or it is empty), the text of the
\* row, and whether extract_songkick_row_candidate raises on it.
Rows ==
    {[links |-> l, location |-> loc, text |-> t, classifier_raises |-> r] :
        l \in RowLinks, loc \in {<<>>, <<"O", "a", "k", "l", "a", "n", "d", ",", " ", "C", "A">>}, t \in RowTexts, r \in BOOLEAN}

\* Date elements of a page: whether it is a time tag, its datetime attribute,
\* its text, and the texts of its parent and grandparent.
Elements ==
    {[is_time |-> it, datetime |-> d, text |-> t, has_parent |-> p # <<>>,
      parent_text |-> p, grandparent_text |-> g] :
        it \in BOOLEAN,
        d \in {<<>>, <<"2", "0", "2", "4", "-", "0", "2", "-", "2", "7", "T", "2", "0", ":", "0", "0">>, <<"2", "0", "2", "4", "-", "0", "2", "-", "3", "1">>},
        t \in {<<"J", "a", "n", "u", "a", "r", "y", " ", "1", "5", ",", " ", "2", "0", "2", "4">>, <<"2", "0", "2", "4", "-", "0", "2", "-", "2", "7">>, <<"2", "0", "2", "4">>},
        p \in {<<>>, <<"s", "h", "o", "w", " ", "a", "t", " ", "T", "h", "e", " ", "F", "i", "l", "l", "m", "o", "r", "e", ",", " ", "O", "a", "k", "l", "a", "n", "d">>, <<"l", "i", "v", "e", " ", "s", "h", "o", "w">>},
        g \in {<<>>, <<"B", "r", "o", "o", "k", "l", "y", "n", " ", "t", "i", "c", "k", "e", "t", "s", " ", "a", "v", "a", "i", "l", "a", "b", "l", "e">>}}

NoExtraction == [emitted |-> <<>>]

\* scrape_songkick handles one time tag of a listing page.
scrape_songkick_time_tag ==
    /\ pc = "idle"
    /\ \E time_tag \in TimeTags, row \in Rows :
          /\ request' = [time_tag |-> time_tag, row |-> row]
          /\ result' = [emitted |-> scrape_time_tag(time_tag, row, SONGKICK_URL,
                                        sf_venue_whitelist_lower, nyc_venue_whitelist_lower)]
    /\ pc' = "scrape_songkick_time_tag"
    /\ UNCHANGED <<venuesFile, sf_venue_whitelist_lower, nyc_venue_whitelist_lower>>

\* scrape_songkick handles one date element of a page without time tags.
scrape_songkick_fallback ==
    /\ pc = "idle"
    /\ \E elem \in Elements :
          /\ ~(elem.is_time /\ elem.datetime # <<>>)
          /\ request' = [elem |-> elem]
          /\ result' = [emitted |-> scrape_fallback_element(elem, SONGKICK_URL)]
    /\ pc' = "scrape_songkick_fallback"
    /\ UNCHANGED <<venuesFile, sf_venue_whitelist_lower, nyc_venue_whitelist_lower>>

\* parse_generic handles one date element.
parse_generic_date_element ==
    /\ pc = "idle"
    /\ \E elem \in Elements :
          /\ request' = [elem |-> elem]
          /\ result' = [emitted |-> parse_generic_element(elem, URL_A1)]
    /\ pc' = "parse_generic"
    /\ UNCHANGED <<venuesFile, sf_venue_whitelist_lower, nyc_venue_whitelist_lower>>

\* parse_generic_internal handles one date element.
parse_generic_internal_date_element ==
    /\ pc = "idle"
    /\ \E elem \in Elements :
          /\ request' = [elem |-> elem]
          /\ result' = [emitted |-> parse_generic_internal_element(elem, URL_A1)]
    /\ pc' = "parse_generic_internal"
    /\ UNCHANGED <<venuesFile, sf_venue_whitelist_lower, nyc_venue_whitelist_lower>>

NextExtract ==
    \/ scrape_songkick_time_tag
    \/ scrape_songkick_fallback
    \/ parse_generic_date_element
    \/ parse_generic_internal_date_element
    \/ Return

SpecExtract == Init /\ [][NextExtract]_vars

Extracted ==
    pc \in {"scrape_songkick_time_tag", "scrape_songkick_fallback", "parse_generic",
            "parse_generic_internal"}

\* C14: every candidate an extraction step emits has a date that parses as a
\* calendar date and a non-empty city or a non-empty venue.
C14_EmittedHaveDateAndPlace ==
    Extracted =>
        \A i \in 1..Len(result.emitted) :
            /\ strptime(result.emitted[i].date_iso) # ValueError
            /\ (result.emitted[i].city # <<>> \/ result.emitted[i].venue # <<>>)

-----------------------------------------------------------------------------
(* The venues file changes while the process runs                          *)

\* config/venues.json after an edit: the Fillmore leaves the SF list, the Roxy
\* joins it.
VENUES_JSON_EDITED ==
    [readable |-> TRUE, json |-> [SF |-> <<VENUE_ROXY>>, NYC |-> <<VENUE_APOLLO>>]]

\* Someone rewrites or removes the file between two requests. The process is
\* not told: the sets lifespan filled stay as they are.
write_venues_file ==
    /\ pc = "idle"
    /\ venuesFile' \in (VenueFiles \cup {VENUES_JSON_EDITED}) \ {venuesFile}
    /\ UNCHANGED <<sf_venue_whitelist_lower, nyc_venue_whitelist_lower, pc, request, result>>

\* Candidates known by their venue alone, and one known by its city.
ReloadPool ==
    {BaseCandidate,
     [BaseCandidate EXCEPT !.city = <<>>, !.venue = VENUE_FILLMORE],
     [BaseCandidate EXCEPT !.city = <<>>, !.venue = VENUE_ROXY, !.date_iso = D_3_AGO],
     [BaseCandidate EXCEPT !.city = <<>>, !.venue = VENUE_APOLLO, !.source_type = "venue"]}

MaxReload == 2

ReloadLists == ListsUpTo(ReloadPool, MaxReload)

\* Rows whose only location information is the venue link.
ReloadRows ==
    {[links |-> <<[href |-> <<"/", "v", "e", "n", "u", "e", "s", "/", "1", "7", "-", "f", "i", "l", "l", "m", "o", "r", "e">>, text |-> v]>>, location |-> <<>>,
      text |-> <<"A", "r", "t", "i", "s", "t", " ">> \o v, classifier_raises |-> FALSE] :
        v \in {VENUE_FILLMORE, VENUE_ROXY, VENUE_APOLLO}}

ReloadTimeTag == [datetime |-> D_4_AGO, text |-> <<>>]

\* One call of select_latest_candidates by POST /select-latest.
select_latest_call ==
    /\ pc = "idle"
    /\ \E cs \in ReloadLists, m \in {"SF", "NYC"} :
          /\ request' = [candidates |-> cs, metro |-> m]
          /\ result' = SelectResult(select_latest_candidates(cs, m))
    /\ pc' = "select_latest"
    /\ UNCHANGED <<venuesFile, sf_venue_whitelist_lower, nyc_venue_whitelist_lower>>

\* scrape_songkick classifies one row, against the sets lifespan filled.
scrape_songkick_row ==
    /\ pc = "idle"
    /\ \E row \in ReloadRows :
          /\ request' = [time_tag |-> ReloadTimeTag, row |-> row]
          /\ result' = [emitted |-> scrape_time_tag(ReloadTimeTag, row, SONGKICK_URL,
                                        sf_venue_whitelist_lower, nyc_venue_whitelist_lower)]
    /\ pc' = "scrape_songkick_time_tag"
    /\ UNCHANGED <<venuesFile, sf_venue_whitelist_lower, nyc_venue_whitelist_lower>>

NextReload == write_venues_file \/ select_latest_call \/ scrape_songkick_row \/ Return

SpecReload == Init /\ [][NextReload]_vars

\* C15: no step after startup changes what a select call or a row
\* classification returns for any given input: both read the allow-lists as
\* they were loaded at startup, whatever happens to the file afterwards.
C15_ListsFixedAtStartup ==
    [][/\ \A cs \in ReloadLists, m \in {"SF", "NYC"} :
             select_latest_candidates(cs, m)' = select_latest_candidates(cs, m)
       /\ \A row \in ReloadRows :
             scrape_time_tag(ReloadTimeTag, row, SONGKICK_URL,
                             sf_venue_whitelist_lower, nyc_venue_whitelist_lower)'
             = scrape_time_tag(ReloadTimeTag, row, SONGKICK_URL,
                               sf_venue_whitelist_lower, nyc_venue_whitelist_lower)]_vars

-----------------------------------------------------------------------------
(* http_get_with_retry (worker.py)                                         *)

\* What one http_client.get(url) does: it raises (a transport-level failure:
\* no connection, timeout) or it returns a response with a status code.
ConnectError == [error |-> TRUE, status |-> 0]

Response(status) == [error |-> FALSE, status |-> status]

NoResponse == [error |-> FALSE, status |-> 0]

\* Faulty variant: a server error on the last attempt is raised, not returned.
RECURSIVE http_get_raises_when_exhausted(_, _, _)
http_get_raises_when_exhausted(gets, max_retries, attempt) ==
    IF attempt > max_retries
    THEN [raised |-> TRUE, exception |-> "HTTPException", response |-> NoResponse,
          attempts |-> attempt]
    ELSE LET response == gets[attempt + 1]
         IN  IF response.error
             THEN IF attempt = max_retries
                  THEN [raised |-> TRUE, exception |-> "ConnectError",
                        response |-> NoResponse, attempts |-> attempt + 1]
                  ELSE http_get_raises_when_exhausted(gets, max_retries, attempt + 1)
             ELSE IF response.status < 500
                  THEN [raised |-> FALSE, exception |-> None, response |-> response,
                        attempts |-> attempt + 1]
                  ELSE http_get_raises_when_exhausted(gets, max_retries, attempt + 1)

\* The loop of http_get_with_retry from attempt `attempt` on, where gets[k] is
\* what the k-th http_client.get does if it is made: whether the function
\* raised and what, the response it returned, and the number of gets it made.
RECURSIVE http_get_attempts(_, _, _)
http_get_attempts(gets, max_retries, attempt) ==
    IF attempt > max_retries
    THEN [raised |-> TRUE, exception |-> "HTTPException", response |-> NoResponse,
          attempts |-> attempt]
    ELSE LET response == gets[attempt + 1]
         IN  IF response.error
             THEN IF attempt = max_retries
                  THEN [raised |-> TRUE, exception |-> "ConnectError",
                        response |-> NoResponse, attempts |-> attempt + 1]
                  ELSE http_get_attempts(gets, max_retries, attempt + 1)
             ELSE IF response.status < 500 \/ attempt = max_retries
                  THEN [raised |-> FALSE, exception |-> None, response |-> response,
                        attempts |-> attempt + 1]
                  ELSE http_get_attempts(gets, max_retries, attempt + 1)

\* http_get_with_retry(url, max_retries)
http_get_with_retry(gets, max_retries) == http_get_attempts(gets, max_retries, 0)

\* The status codes a server answers with.
Statuses == {200, 403, 404, 429, 500, 503}

Gets == {ConnectError} \cup {Response(s) : s \in Statuses}

MaxRetries == 2

\* One call of http_get_with_retry; the server and the network decide what
\* each get does.
call_http_get_with_retry ==
    /\ pc = "idle"
    /\ \E max_retries \in 0..MaxRetries, gets \in [1..(MaxRetries + 1) -> Gets] :
          /\ request' = [gets |-> gets, max_retries |-> max_retries]
          /\ result' = http_get_with_retry(gets, max_retries)
    /\ pc' = "http_get_with_retry"
    /\ UNCHANGED <<venuesFile, sf_venue_whitelist_lower, nyc_venue_whitelist_lower>>

NextGet == call_http_get_with_retry \/ Return

SpecGet == Init /\ [][NextGet]_vars

ServerError(response) == ~response.error /\ response.status >= 500

\* What C16 says of every call but for the reason of a further attempt.
GetContract(MayRetryAfter(_)) ==
    pc = "http_get_with_retry" =>
        LET n == result.attempts
            last == request.gets[n]
        IN  /\ n >= 1 /\ n <= request.max_retries + 1
            /\ \A k \in 1..(n - 1) : MayRetryAfter(request.gets[k])
            /\ (~last.error /\ last.status < 500) => (~result.raised /\ result.response = last)
            /\ (n = request.max_retries + 1 /\ ServerError(last))
                  => (~result.raised /\ result.response = last)
            /\ last.error => (n = request.max_retries + 1 /\ result.raised)
            /\ (ServerError(last) \/ last.error) => n = request.max_retries + 1

\* C16 as stated: at most max_retries + 1 attempts, a further attempt only
\* after a 5xx response, a response below 500 returned at once, the last 5xx
\* response returned when the attempts are used up, a transport failure on the
\* last attempt raised.
C16_RetryOnlyAfterServerError == GetContract(ServerError)

RetriedOutcome(response) == ServerError(response) \/ response.error

\* C16 amended: as stated, except that a further attempt is made after a 5xx
\* response or after a transport failure.
C16_RetryAfterServerErrorOrFailure == GetContract(RetriedOutcome)

\* A call that retried after a transport failure and after a server error and
\* then returned the last server error.
C16_Witness ==
    /\ pc = "http_get_with_retry"
    /\ request.max_retries = 2
    /\ SubSeq(request.gets, 1, 3) = <<ConnectError, Response(503), Response(500)>>
    /\ result.attempts = 3 /\ ~result.raised /\ result.response = Response(500)

-----------------------------------------------------------------------------
(* Fetching pages: parse_generic and the archive fallback (worker.py)      *)

\* settings.HTTP_MAX_RETRIES and the default limit of wayback_parse_internal.
HTTP_MAX_RETRIES == 1
WAYBACK_LIMIT == 2

\* A response with a body: response.text of a page is given by the date
\* elements BeautifulSoup finds in it, response.json() by `json`.
Page(elements) == [error |-> FALSE, status |-> 200, text |-> elements]

IndexResponse(json) == [error |-> FALSE, status |-> 200, json |-> json]

\* response.raise_for_status() raises.
HTTPStatusError(response) == response.status >= 400

\* A call http_get_with_retry(url, <keywords>): Python binds keyword arguments
\* to the parameters url and max_retries and raises TypeError for any other
\* keyword before the function body runs.
http_get_with_retry_keywords(gets, max_retries, keywords) ==
    IF keywords \subseteq {"url", "max_retries"}
    THEN http_get_with_retry(gets, max_retries)
    ELSE [raised |-> TRUE, exception |-> "TypeError", response |-> NoResponse,
          attempts |-> 0]

\* The loop over unique_elements in parse_generic_internal from element i on;
\* the function returns the list as the loop leaves it.
RECURSIVE parse_generic_internal_from(_, _, _)
parse_generic_internal_from(url, elements, i) ==
    IF i > Len(elements) THEN <<>>
    ELSE parse_generic_internal_element(elements[i], url)
         \o parse_generic_internal_from(url, elements, i + 1)

parse_generic_internal(url, elements) == parse_generic_internal_from(url, elements, 1)

\* f"wayback_{candidate.source_type}"
WAYBACK_SOURCE_TYPE ==
    [generic |-> "wayback_generic", venue |-> "wayback_venue", press |-> "wayback_press",
     songkick |-> "wayback_songkick", bandsintown |-> "wayback_bandsintown",
     ticketing |-> "wayback_ticketing", setlist |-> "wayback_setlist"]

\* f"http://web.archive.org/web/{timestamp}/{url}"
snapshot_url_of(timestamp, url) ==
    <<"h", "t", "t", "p", ":", "/", "/", "w", "e", "b", ".", "a", "r", "c", "h", "i", "v", "e", ".", "o", "r", "g", "/", "w", "e", "b", "/">> \o timestamp \o <<"/">> \o url

\* "Mark as from Wayback": the candidates of one snapshot.
mark_as_wayback(snapshot_candidates, snapshot_url, url) ==
    [k \in 1..Len(snapshot_candidates) |->
        [snapshot_candidates[k] EXCEPT !.source_type = WAYBACK_SOURCE_TYPE[@],
                                       !.url = snapshot_url,
                                       !.source_host = netloc(url)]]

\* The loop over snapshots in wayback_parse_internal from snapshot i on:
\* the candidates it collects. archive.snapshot_gets[timestamp] is what the
\* gets of that snapshot do. A snapshot whose fetch raises, whose status
\* raises in raise_for_status or whose row is too short adds nothing.
RECURSIVE wayback_snapshots_from(_, _, _, _)
wayback_snapshots_from(url, snapshots, archive, i) ==
    IF i > Len(snapshots) THEN <<>>
    ELSE
      LET snapshot == snapshots[i]
          timestamp == snapshot[2]
          snapshot_url == snapshot_url_of(timestamp, url)
          collected ==
              IF Len(snapshot) < 3 THEN <<>>
              ELSE With(http_get_with_retry(archive.snapshot_gets[timestamp], HTTP_MAX_RETRIES),
                        LAMBDA fetched :
                    IF fetched.raised THEN <<>>
                    ELSE IF HTTPStatusError(fetched.response) THEN <<>>
                    ELSE mark_as_wayback(
                             parse_generic_internal(snapshot_url, fetched.response.text),
                             snapshot_url, url))
      IN  collected \o wayback_snapshots_from(url, snapshots, archive, i + 1)

\* What wayback_parse_internal hands to its caller: it never raises.
WaybackResult(candidates, failed, index_attempts) ==
    [raised |-> FALSE, candidates |-> candidates, failed |-> failed,
     index_attempts |-> index_attempts]

\* wayback_parse_internal after the index query, given what the query did
\* (`fetched`): every exception ends in the outer except and gives [].
wayback_parse_internal_from(url, fetched, archive, limit) ==
    IF fetched.raised THEN WaybackResult(<<>>, fetched.exception, fetched.attempts)
    ELSE IF HTTPStatusError(fetched.response)
    THEN WaybackResult(<<>>, "HTTPStatusError", fetched.attempts)
    ELSE LET snapshot_data == fetched.response.json
         IN  IF ~snapshot_data.valid
             THEN WaybackResult(<<>>, "JSONDecodeError", fetched.attempts)
             ELSE IF Len(snapshot_data.rows) <= 1
             THEN WaybackResult(<<>>, None, fetched.attempts)
             ELSE WaybackResult(
                      wayback_snapshots_from(url, Slice(snapshot_data.rows, 1, limit + 1),
                                             archive, 1),
                      None, fetched.attempts)

\* Faulty variant: the failure of the index query reaches the caller.
wayback_parse_internal_propagates(url, archive, limit) ==
    LET fetched == http_get_with_retry_keywords(archive.index_gets, HTTP_MAX_RETRIES,
                                                {"params", "max_retries"})
    IN  IF fetched.raised
        THEN [WaybackResult(<<>>, fetched.exception, fetched.attempts) EXCEPT !.raised = TRUE]
        ELSE wayback_parse_internal_from(url, fetched, archive, limit)

\* wayback_parse_internal(url, from_year, limit): the index query is the call
\* http_get_with_retry(cdx_url, params=params, max_retries=...).
wayback_parse_internal(url, archive, limit) ==
    wayback_parse_internal_from(
        url,
        http_get_with_retry_keywords(archive.index_gets, HTTP_MAX_RETRIES,
                                     {"params", "max_retries"}),
        archive, limit)

\* The loop over unique_elements in parse_generic from element i on.
RECURSIVE parse_generic_from(_, _, _)
parse_generic_from(url, elements, i) ==
    IF i > Len(elements) THEN <<>>
    ELSE parse_generic_element(elements[i], url) \o parse_generic_from(url, elements, i + 1)

\* What POST /parse-generic answers: a list of candidates, or an HTTPException
\* with a status code. `fallback` tells whether wayback_parse_internal was
\* called and `wayback` what it returned.
NoWayback == WaybackResult(<<>>, None, 0)

ParseResult(candidates, fallback, wayback) ==
    [raised |-> FALSE, status_code |-> 200, candidates |-> candidates,
     fallback |-> fallback, wayback |-> wayback]

\* Every HTTPException raised inside the handler passes its last
\* `except Exception` and leaves as status 500.
ParseError(fallback, wayback) ==
    [raised |-> TRUE, status_code |-> 500, candidates |-> <<>>,
     fallback |-> fallback, wayback |-> wayback]

\* parse_generic for a request with a url and no html.
parse_generic(url, live_gets, archive) ==
    With(http_get_with_retry(live_gets, HTTP_MAX_RETRIES), LAMBDA live :
      IF live.raised THEN ParseError(FALSE, NoWayback)
      ELSE IF HTTPStatusError(live.response)
      THEN IF live.response.status \in {403, 429} \/ live.response.status >= 500
           THEN With(wayback_parse_internal(url, archive, WAYBACK_LIMIT),
                     LAMBDA wayback :
                  IF wayback.raised THEN ParseError(TRUE, wayback)
                  ELSE IF wayback.candidates # <<>>
                  THEN ParseResult(wayback.candidates, TRUE, wayback)
                  ELSE ParseError(TRUE, wayback))
           ELSE ParseError(FALSE, NoWayback)
      ELSE ParseResult(dedupe_candidates(parse_generic_from(url, live.response.text, 1)),
                       FALSE, NoWayback))

\* Date elements of fetched pages.
SHOW_FILLMORE ==
    [is_time |-> FALSE, datetime |-> <<>>, text |-> <<"2", "0", "2", "4", "-", "0", "2", "-", "2", "7">>, has_parent |-> TRUE,
     parent_text |-> <<"s", "h", "o", "w", " ", "a", "t", " ", "T", "h", "e", " ", "F", "i", "l", "l", "m", "o", "r", "e", ",", " ", "O", "a", "k", "l", "a", "n", "d">>, grandparent_text |-> <<>>]

SHOW_BROOKLYN ==
    [is_time |-> TRUE, datetime |-> <<"2", "0", "2", "4", "-", "0", "1", "-", "1", "5", "T", "2", "0", ":", "0", "0">>, text |-> <<"1", "5", " ", "J", "a", "n">>,
     has_parent |-> TRUE, parent_text |-> <<"l", "i", "v", "e", " ", "i", "n", " ", "B", "r", "o", "o", "k", "l", "y", "n">>, grandparent_text |-> <<>>]

NO_SHOW ==
    [is_time |-> FALSE, datetime |-> <<>>, text |-> <<"2", "0", "2", "4">>, has_parent |-> TRUE,
     parent_text |-> <<"c", "o", "p", "y", "r", "i", "g", "h", "t">>, grandparent_text |-> <<>>]

LIVE_PAGE == <<NO_SHOW, SHOW_FILLMORE>>

\* The rows of the snapshot index: a header row, then urlkey, timestamp
\* and original url of each snapshot.
TS_1 == <<"2", "0", "2", "3", "0", "1", "0", "5", "1", "2", "0", "0", "0", "0">>
TS_2 == <<"2", "0", "2", "3", "0", "6", "1", "0", "1", "2", "0", "0", "0", "0">>
TS_3 == <<"2", "0", "2", "3", "1", "1", "2", "0", "1", "2", "0", "0", "0", "0">>

INDEX_HEADER == <<<<"u", "r", "l", "k", "e", "y">>, <<"t", "i", "m", "e", "s", "t", "a", "m", "p">>, <<"o", "r", "i", "g", "i", "n", "a", "l">>>>

IndexRow(timestamp) == <<<<"c", "o", ",", "a", ")", "/", "1">>, timestamp, URL_A1>>

SHORT_ROW == <<<<"c", "o", ",", "a", ")", "/", "1">>, TS_1>>

\* What response.json() gives: it raises on a malformed body.
MALFORMED_JSON == [valid |-> FALSE, rows |-> <<>>]

Json(rows) == [valid |-> TRUE, rows |-> rows]

IndexDocuments ==
    {MALFORMED_JSON, Json(<<>>), Json(<<INDEX_HEADER>>),
     Json(<<INDEX_HEADER, IndexRow(TS_1)>>),
     Json(<<INDEX_HEADER, IndexRow(TS_1), IndexRow(TS_2), IndexRow(TS_3)>>),
     Json(<<INDEX_HEADER, SHORT_ROW, IndexRow(TS_2)>>)}

\* What the gets of the index query do, were they made.
IndexGets ==
    {<<ConnectError, ConnectError>>, <<Response(503), Response(503)>>,
     <<Response(403), ConnectError>>,
     <<Response(503), IndexResponse(Json(<<INDEX_HEADER, IndexRow(TS_1), IndexRow(TS_2)>>))>>}
    \cup {<<IndexResponse(d), ConnectError>> : d \in IndexDocuments}

\* The archived pages, and what the gets of each snapshot do.
SNAPSHOTS_UP ==
    (TS_1 :> <<Page(<<SHOW_FILLMORE>>), ConnectError>>)
    @@ (TS_2 :> <<Page(<<NO_SHOW, SHOW_BROOKLYN>>), ConnectError>>)
    @@ (TS_3 :> <<Page(<<SHOW_BROOKLYN>>), ConnectError>>)

SnapshotGets ==
    {SNAPSHOTS_UP,
     [SNAPSHOTS_UP EXCEPT ![TS_1] = <<ConnectError, ConnectError>>],
     [SNAPSHOTS_UP EXCEPT ![TS_1] = <<Response(404), ConnectError>>],
     [SNAPSHOTS_UP EXCEPT ![TS_1] = <<Response(503), Page(<<SHOW_FILLMORE>>)>>],
     [ts \in {TS_1, TS_2, TS_3} |-> <<Response(503), ConnectError>>]}

Archives == {[index_gets |-> i, snapshot_gets |-> s] : i \in IndexGets, s \in SnapshotGets}

LiveGets == {ConnectError, Page(LIVE_PAGE), Response(403), Response(404), Response(429),
             Response(503)}

\* POST /parse-generic with a url and no html.
parse_generic_url ==
    /\ pc = "idle"
    /\ \E live_gets \in [1..(HTTP_MAX_RETRIES + 1) -> LiveGets], archive \in Archives :
          /\ request' = [url |-> URL_A1, live_gets |-> live_gets, archive |-> archive]
          /\ result' = parse_generic(URL_A1, live_gets, archive)
    /\ pc' = "parse_generic_url"
    /\ UNCHANGED <<venuesFile, sf_venue_whitelist_lower, nyc_venue_whitelist_lower>>

NextFallback == parse_generic_url \/ Return

SpecFallback == Init /\ [][NextFallback]_vars

\* The live fetch ended in a response that calls for the archive.
Blocked(live) ==
    /\ ~live.raised
    /\ live.response.status \in {403, 429} \/ live.response.status >= 500

\* What the archive holds for the request: the result of the steps of
\* wayback_parse_internal that follow the index query, once the query is made
\* with the retry policy.
Archived ==
    wayback_parse_internal_from(
        request.url, http_get_with_retry(request.archive.index_gets, HTTP_MAX_RETRIES),
        request.archive, WAYBACK_LIMIT)

\* C17: a live fetch that ends in 403, 429 or 5xx, a 5xx only after the
\* retries are used up, and no other fetch, leads to the archive fallback; the
\* fallback queries the snapshot index, fetches the listed snapshots up to the
\* limit with the retry policy, extracts from each, and the candidates so
\* found are returned with their source type prefixed.
C17_BlockedFetchFallsBack ==
    pc = "parse_generic_url" =>
        LET live == http_get_with_retry(request.live_gets, HTTP_MAX_RETRIES)
            archived == Archived
        IN  /\ result.fallback <=> Blocked(live)
            /\ (Blocked(live) /\ live.response.status >= 500)
                  => live.attempts = HTTP_MAX_RETRIES + 1
            /\ Blocked(live) =>
                  /\ result.wayback.index_attempts >= 1
                  /\ result.wayback.candidates = archived.candidates
                  /\ \A k \in 1..Len(result.wayback.candidates) :
                        result.wayback.candidates[k].source_type = "wayback_generic"
                  /\ archived.candidates # <<>>
                        => (~result.raised /\ result.candidates = archived.candidates)

\* Every listed snapshot up to the limit cannot be fetched.
AllSnapshotsFail(archive) ==
    \A ts \in DOMAIN archive.snapshot_gets :
        LET fetched == http_get_with_retry(archive.snapshot_gets[ts], HTTP_MAX_RETRIES)
        IN  fetched.raised \/ HTTPStatusError(fetched.response)

\* C18: the archive fallback never raises to its caller, and returns no
\* candidate when something failed inside it: the index query, a malformed or
\* header-only index, or every snapshot fetch. The steps after the index
\* query are held to the same.
C18_FallbackNeverRaises ==
    (pc = "parse_generic_url" /\ result.fallback) =>
        LET archived == Archived
            index == http_get_with_retry(request.archive.index_gets, HTTP_MAX_RETRIES)
        IN  /\ ~result.wayback.raised
            /\ result.wayback.failed # None => result.wayback.candidates = <<>>
            /\ ~archived.raised
            /\ (\/ index.raised
                \/ HTTPStatusError(index.response)
                \/ ~index.response.json.valid
                \/ Len(index.response.json.rows) <= 1
                \/ AllSnapshotsFail(request.archive)) => archived.candidates = <<>>

\* The live fetch was blocked, the index query failed inside the fallback, and
\* the fallback handed back an empty list.
C18_Witness ==
    /\ pc = "parse_generic_url"
    /\ result.fallback
    /\ result.wayback.failed # None
    /\ ~result.wayback.raised
    /\ result.wayback.candidates = <<>>

-----------------------------------------------------------------------------
(* Batches: the pages and rows of scrape_songkick, the snapshots of the    *)
(* archive fallback                                                        *)

\* f"https://www.songkick.com/artists/{slug}/gigography?page={page}"
songkick_page_url(page) ==
    SubSeq(SONGKICK_URL, 1, Len(SONGKICK_URL) - 1) \o <<(<<"1", "2", "3", "4", "5", "6", "7", "8">>)[page]>>

\* The loop over time tags from tag i on. An item is a time tag with its row;
\* item.raises stands for an exception in the loop body that the inner try
\* around the classifier does not catch (in the legacy extractor, or in
\* building the Candidate): the outer except logs it and continues.
RECURSIVE scrape_time_tags_from(_, _, _, _, _)
scrape_time_tags_from(time_tags, i, url, sf_lower, nyc_lower) ==
    IF i > Len(time_tags) THEN <<>>
    ELSE (IF time_tags[i].raises THEN <<>>
          ELSE scrape_time_tag(time_tags[i].time_tag, time_tags[i].row, url,
                               sf_lower, nyc_lower))
         \o scrape_time_tags_from(time_tags, i + 1, url, sf_lower, nyc_lower)

\* The loop over date elements of the page-level fallback from element i on.
RECURSIVE scrape_fallback_from(_, _, _)
scrape_fallback_from(elements, i, url) ==
    IF i > Len(elements) THEN <<>>
    ELSE scrape_fallback_element(elements[i], url) \o scrape_fallback_from(elements, i + 1, url)

\* The loop over pages in scrape_songkick from page `page` on, where
\* pages[k] is what the gets of page k do: a page whose fetch raises or whose
\* status raises in raise_for_status is logged and skipped.
RECURSIVE scrape_pages_from(_, _, _, _)
scrape_pages_from(pages, page, sf_lower, nyc_lower) ==
    IF page > Len(pages) THEN <<>>
    ELSE
      LET url == songkick_page_url(page)
      IN  With(http_get_with_retry(pages[page], HTTP_MAX_RETRIES), LAMBDA fetched :
            (IF fetched.raised \/ HTTPStatusError(fetched.response) THEN <<>>
             ELSE LET soup == fetched.response.text
                  IN  scrape_time_tags_from(soup.time_tags, 1, url, sf_lower, nyc_lower)
                      \o (IF soup.time_tags = <<>>
                          THEN scrape_fallback_from(soup.elements, 1, url)
                          ELSE <<>>))
            \o scrape_pages_from(pages, page + 1, sf_lower, nyc_lower))

\* scrape_songkick once the slug is known: the list it returns.
scrape_songkick(pages, sf_lower, nyc_lower) ==
    dedupe_candidates(scrape_pages_from(pages, 1, sf_lower, nyc_lower))

\* Time tags with their rows.
ITEM_FILLMORE ==
    [time_tag |-> [datetime |-> <<"2", "0", "2", "4", "-", "0", "2", "-", "2", "7">>, text |-> <<>>],
     row |-> [links |-> <<VENUE_LINK>>, location |-> <<>>,
              text |-> <<"A", "r", "t", "i", "s", "t", " ", "T", "h", "e", " ", "F", "i", "l", "l", "m", "o", "r", "e", " ", "O", "a", "k", "l", "a", "n", "d", ",", " ", "C", "A">>, classifier_raises |-> FALSE],
     raises |-> FALSE]

ITEM_NYC ==
    [time_tag |-> [datetime |-> <<"2", "0", "2", "4", "-", "0", "1", "-", "1", "5", "T", "2", "0", ":", "0", "0", ":", "0", "0", "-", "0", "4", "0", "0">>, text |-> <<>>],
     row |-> [links |-> <<ARTIST_LINK, VENUE_LINK, NYC_METRO_LINK>>, location |-> <<>>,
              text |-> <<"A", "r", "t", "i", "s", "t", " ", "T", "h", "e", " ", "F", "i", "l", "l", "m", "o", "r", "e">>, classifier_raises |-> FALSE],
     raises |-> FALSE]

ITEM_LEGACY ==
    [time_tag |-> [datetime |-> <<"2", "0", "2", "4", "-", "0", "2", "-", "2", "0">>, text |-> <<>>],
     row |-> [links |-> <<VENUE_LINK>>, location |-> <<"O", "a", "k", "l", "a", "n", "d", ",", " ", "C", "A">>,
              text |-> <<"A", "r", "t", "i", "s", "t", " ", "T", "h", "e", " ", "F", "i", "l", "l", "m", "o", "r", "e">>, classifier_raises |-> TRUE],
     raises |-> FALSE]

ITEM_BROKEN == [ITEM_FILLMORE EXCEPT !.raises = TRUE]

SongkickPage(time_tags, elements) ==
    [error |-> FALSE, status |-> 200,
     text |-> [time_tags |-> time_tags, elements |-> elements]]

PAGE_A == SongkickPage(<<ITEM_FILLMORE, ITEM_BROKEN, ITEM_NYC>>, <<>>)
PAGE_B == SongkickPage(<<ITEM_BROKEN, ITEM_LEGACY>>, <<>>)
PAGE_C == SongkickPage(<<>>, <<NO_SHOW, [SHOW_FILLMORE EXCEPT !.parent_text = <<"l", "i", "v", "e", " ", "i", "n", " ", "B", "r", "o", "o", "k", "l", "y", "n">>]>>)

\* What the gets of one listing page do.
PageGets ==
    {<<PAGE_A, ConnectError>>, <<Response(503), PAGE_B>>, <<PAGE_C, ConnectError>>,
     <<ConnectError, ConnectError>>, <<Response(404), ConnectError>>,
     <<Response(503), Response(503)>>}

MaxPages == 3

\* POST /scrape-songkick with max_pages pages to read.
call_scrape_songkick ==
    /\ pc = "idle"
    /\ \E pages \in ListsUpTo(PageGets, MaxPages) :
          /\ request' = [pages |-> pages]
          /\ result' = [raised |-> FALSE,
                        candidates |-> scrape_songkick(pages, sf_venue_whitelist_lower,
                                                       nyc_venue_whitelist_lower)]
    /\ pc' = "scrape_songkick"
    /\ UNCHANGED <<venuesFile, sf_venue_whitelist_lower, nyc_venue_whitelist_lower>>

\* One call of wayback_parse_internal by parse_generic.
call_wayback_parse_internal ==
    /\ pc = "idle"
    /\ \E archive \in Archives :
          /\ request' = [url |-> URL_A1, archive |-> archive]
          /\ result' = wayback_parse_internal(URL_A1, archive, WAYBACK_LIMIT)
    /\ pc' = "wayback_parse_internal"
    /\ UNCHANGED <<venuesFile, sf_venue_whitelist_lower, nyc_venue_whitelist_lower>>

NextBatch == call_scrape_songkick \/ call_wayback_parse_internal \/ Return

SpecBatch == Init /\ [][NextBatch]_vars

\* The fetch of a page or snapshot fails: it raises or its status is refused.
FetchFails(gets) ==
    LET fetched == http_get_with_retry(gets, HTTP_MAX_RETRIES)
    IN  fetched.raised \/ HTTPStatusError(fetched.response)

NotRaising(item) == ~item.raises

\* The pages of a request with every failing item taken out: a page that
\* cannot be fetched reads as a page without rows, a row that raises is gone.
Repaired(pages) ==
    [k \in 1..Len(pages) |->
        IF FetchFails(pages[k]) THEN <<SongkickPage(<<>>, <<>>), ConnectError>>
        ELSE [j \in 1..Len(pages[k]) |->
                IF pages[k][j].status = 200
                THEN [pages[k][j] EXCEPT !.text.time_tags = SelectSeq(@, NotRaising)]
                ELSE pages[k][j]]]

\* The rows and pages of scrape_songkick: the answer is a list, it is the one
\* the request gets with the failing items taken out, and it holds, up to
\* deduplication, every candidate of every row that does not fail on a page
\* that can be fetched.
RowsAndPagesSkipped ==
    pc = "scrape_songkick" =>
        /\ ~result.raised
        /\ result.candidates
             = scrape_songkick(Repaired(request.pages), sf_venue_whitelist_lower,
                               nyc_venue_whitelist_lower)
        /\ \A k \in 1..Len(request.pages) :
              ~FetchFails(request.pages[k]) =>
                LET soup == http_get_with_retry(request.pages[k], HTTP_MAX_RETRIES).response.text
                IN  \A j \in 1..Len(soup.time_tags) :
                      ~soup.time_tags[j].raises =>
                        LET found == scrape_time_tag(soup.time_tags[j].time_tag,
                                                     soup.time_tags[j].row,
                                                     songkick_page_url(k),
                                                     sf_venue_whitelist_lower,
                                                     nyc_venue_whitelist_lower)
                        IN  \A c \in 1..Len(found) :
                              \E r \in 1..Len(result.candidates) :
                                 dedupe_key(result.candidates[r]) = dedupe_key(found[c])

\* The snapshots the index lists for the request, up to the limit, once the
\* index is queried with the retry policy.
ListedSnapshots ==
    LET index == http_get_with_retry(request.archive.index_gets, HTTP_MAX_RETRIES)
    IN  IF index.raised \/ HTTPStatusError(index.response) THEN <<>>
        ELSE IF ~index.response.json.valid THEN <<>>
        ELSE Slice(index.response.json.rows, 1, WAYBACK_LIMIT + 1)

\* The snapshots of the archive fallback: the answer is a list and it holds
\* every candidate of every listed snapshot that can be fetched.
SnapshotsSkipped ==
    pc = "wayback_parse_internal" =>
        /\ ~result.raised
        /\ LET listed == ListedSnapshots
           IN  \A i \in 1..Len(listed) :
                 (Len(listed[i]) >= 3 /\ ~FetchFails(request.archive.snapshot_gets[listed[i][2]])) =>
                   LET snapshot_url == snapshot_url_of(listed[i][2], request.url)
                       fetched == http_get_with_retry(
                                      request.archive.snapshot_gets[listed[i][2]],
                                      HTTP_MAX_RETRIES)
                       found == mark_as_wayback(
                                    parse_generic_internal(snapshot_url, fetched.response.text),
                                    snapshot_url, request.url)
                   IN  \A c \in 1..Len(found) :
                         \E r \in 1..Len(result.candidates) : result.candidates[r] = found[c]

\* C19: one failing row, listing page or archive snapshot is skipped; the
\* candidates collected so far are kept, the next item is processed, and the
\* batch result holds the candidates of every item that does not fail.
C19_BadItemNeverAbortsBatch == RowsAndPagesSkipped /\ SnapshotsSkipped

-----------------------------------------------------------------------------
(* Token fallback as a call                                                *)

\* Pieces of row text: tokens of either metro in mixed case, the alias, a
\* space-padded state code, state codes after a comma, and plain words.
TOKEN_PARTS ==
    {<<>>, <<"B", "r", "o", "o", "k", "l", "y", "n">>, <<"B", "K", "L", "Y", "N">>, <<"S", "t", "a", "t", "e", "n", " ", "I", "s", "l", "a", "n", "d">>, <<"N", "e", "w", " ", "Y", "o", "r", "k">>, <<"N", "Y", "C">>, <<"n", "y", "c">>,
     <<"i", "n", " ", "N", "Y", " ", "t", "o", "n", "i", "g", "h", "t">>, <<"B", "u", "f", "f", "a", "l", "o", ",", " ", "N", "Y">>, <<"A", "l", "b", "a", "n", "y", ",", " ", "N", "Y">>, <<"B", "a", "y", " ", "A", "r", "e", "a">>, <<"O", "a", "k", "l", "a", "n", "d">>,
     <<"S", "a", "n", " ", "F", "r", "a", "n", "c", "i", "s", "c", "o">>, <<"d", "a", "l", "y", " ", "c", "i", "t", "y">>, <<"B", "e", "r", "k", "e", "l", "e", "y", ",", " ", "C", "A">>, <<"L", "o", "s", " ", "A", "n", "g", "e", "l", "e", "s", ",", " ", "C", "A">>, <<"s", "h", "o", "w">>,
     <<"m", "a", "n", "y", " ", "c", "o", "n", "c", "e", "r", "t", "s">>}

TokenTexts == {a \o <<" ">> \o b : a \in TOKEN_PARTS, b \in TOKEN_PARTS} \cup TOKEN_PARTS

call_fallback_tokens_to_metro ==
    /\ pc = "idle"
    /\ \E txt \in TokenTexts :
          /\ request' = [txt |-> txt]
          /\ result' = [metro |-> fallback_tokens_to_metro(txt)]
    /\ pc' = "fallback_tokens_to_metro"
    /\ UNCHANGED <<venuesFile, sf_venue_whitelist_lower, nyc_venue_whitelist_lower>>

NextTokens == call_fallback_tokens_to_metro \/ Return

SpecTokens == Init /\ [][NextTokens]_vars

HasToken(tokens, txt) == \E t \in tokens : Contains(t, lower(txt))

-----------------------------------------------------------------------------
(* parse_date as a call                                                    *)

\* Date texts: what the page says before the date, and the date as written.
DATE_PREFIXES == {<<>>, <<"o", "n", " ">>, <<"a", "t", " ">>, <<"s", "h", "o", "w", "s", " ">>, <<"c", "o", "n", "c", "e", "r", "t", " ">>, <<"E", "v", "e", "n", "t", " ", "o", "n", " ">>}

DATE_WORDINGS ==
    {<<>>, <<"J", "a", "n", "u", "a", "r", "y", " ", "1", "5", ",", " ", "2", "0", "2", "4">>, <<"1", "5", " ", "J", "a", "n", " ", "2", "0", "2", "4">>, <<"J", "a", "n", " ", "1", "5">>, <<"J", "a", "n", "u", "a", "r", "y">>, <<"T", "u", "e", "s", "d", "a", "y">>,
     <<"2", "0", "2", "4">>, <<"2", "0", "2", "4", "-", "0", "1", "-", "1", "5">>, <<"2", "0", "2", "4", "-", "1", "3", "-", "4", "5", " ", "a", "n", "d", " ", "2", "0", "2", "3", "-", "0", "2", "-", "0", "1">>, <<"1", "2", "0", "2", "4", "-", "0", "1", "-", "1", "5", "5">>,
     <<"2", "0", "2", "4", "-", "1", "-", "1", "5">>, <<"i", "n", "v", "a", "l", "i", "d", " ", "d", "a", "t", "e">>, <<"u", "p", "c", "o", "m", "i", "n", "g">>}

ParseDateTexts ==
    {p \o d \o s : p \in DATE_PREFIXES, d \in DATE_WORDINGS, s \in {<<>>, <<" ">>, <<" ", "s", "h", "o", "w">>}}

call_parse_date ==
    /\ pc = "idle"
    /\ \E date_text \in ParseDateTexts :
          /\ request' = [date_text |-> date_text]
          /\ result' = [date_iso |-> parse_date(date_text)]
    /\ pc' = "parse_date"
    /\ UNCHANGED <<venuesFile, sf_venue_whitelist_lower, nyc_venue_whitelist_lower>>

NextParseDate == call_parse_date \/ Return

SpecParseDate == Init /\ [][NextParseDate]_vars

\* The places of a text where four digits, a hyphen, two digits, a hyphen and
\* two digits stand.
IsoPlaces(text) ==
    {i \in 1..(Len(text) - 9) :
        /\ \A k \in {0, 1, 2, 3, 5, 6, 8, 9} : text[i + k] \in DOMAIN DigitValue
        /\ text[i + 4] = "-" /\ text[i + 7] = "-"}

-----------------------------------------------------------------------------
(* extract_songkick_row_candidate as a call                                *)

BAY_AREA_METRO_LINK ==
    [href |-> <<"/", "m", "e", "t", "r", "o", "-", "a", "r", "e", "a", "s", "/", "2", "6", "3", "3", "0", "-", "u", "s", "-", "s", "a", "n", "-", "f", "r", "a", "n", "c", "i", "s", "c", "o", "-", "b", "a", "y", "-", "a", "r", "e", "a">>, text |-> <<"S", "F", " ", "B", "a", "y", " ", "A", "r", "e", "a", ",", " ", "C", "A", ",", " ", "U", "S">>]

\* Venue links of a row: none, or one whose text is or is not on an allow-list.
CLASSIFY_VENUE_LINKS ==
    {<<>>,
     <<[href |-> <<"/", "v", "e", "n", "u", "e", "s", "/", "1", "7", "-", "f", "i", "l", "l", "m", "o", "r", "e">>, text |-> <<"F", "i", "l", "l", "m", "o", "r", "e">>]>>,
     <<[href |-> <<"/", "v", "e", "n", "u", "e", "s", "/", "1", "7", "-", "f", "i", "l", "l", "m", "o", "r", "e">>, text |-> <<"F", "I", "L", "L", "M", "O", "R", "E">>]>>,
     <<[href |-> <<"/", "v", "e", "n", "u", "e", "s", "/", "9", "-", "a", "p", "o", "l", "l", "o">>, text |-> <<"A", "p", "o", "l", "l", "o">>]>>,
     <<[href |-> <<"/", "v", "e", "n", "u", "e", "s", "/", "r", "o", "x", "y">>, text |-> <<"R", "o", "x", "y">>]>>}

CLASSIFY_METRO_LINKS == {<<>>, <<NYC_METRO_LINK>>, <<BAY_AREA_METRO_LINK>>, <<LA_METRO_LINK>>}

\* What the row says about the place besides its links.
CLASSIFY_LOCATIONS ==
    {<<>>, <<"O", "a", "k", "l", "a", "n", "d", ",", " ", "C", "A">>, <<"B", "r", "o", "o", "k", "l", "y", "n", ",", " ", "N", "Y">>, <<"A", "l", "b", "a", "n", "y", ",", " ", "N", "Y">>, <<"A", "u", "s", "t", "i", "n", ",", " ", "T", "X">>,
     <<"B", "r", "o", "o", "k", "l", "y", "n">>, <<"B", "a", "y", " ", "A", "r", "e", "a">>, <<"O", "a", "k", "l", "a", "n", "d", ",", " ", "C", "A", " ", "B", "r", "o", "o", "k", "l", "y", "n">>, <<"F", "r", "e", "s", "n", "o", ",", " ", "C", "A", " ", "B", "r", "o", "o", "k", "l", "y", "n">>,
     <<"B", "k", "l", "y", "n", ",", " ", "N", "Y">>}

\* Tag.get_text(" ", strip=True): the stripped non-empty strings, one blank
\* between them.
RECURSIVE get_text(_)
get_text(strings) ==
    IF strings = <<>> THEN <<>>
    ELSE LET head == strip(Head(strings))
             rest == get_text(Tail(strings))
         IN  IF head = <<>> THEN rest
             ELSE IF rest = <<>> THEN head
             ELSE head \o <<" ">> \o rest

\* Rows: the date as written, the artist link, the venue link and the metro
\* link, the place as text before the artist or after the venue.
ClassifyRows ==
    {[links |-> <<ARTIST_LINK>> \o v \o m,
      text |-> get_text(<<<<"2", "7", " ", "F", "e", "b", " ", "2", "0", "2", "4">>, IF place_first THEN loc ELSE <<>>, ARTIST_LINK.text>>
                        \o [i \in DOMAIN v |-> v[i].text]
                        \o <<IF place_first THEN <<>> ELSE loc>>
                        \o [i \in DOMAIN m |-> m[i].text])] :
        v \in CLASSIFY_VENUE_LINKS, m \in CLASSIFY_METRO_LINKS, loc \in CLASSIFY_LOCATIONS,
        place_first \in BOOLEAN}

ClassifyTimeTags ==
    {[datetime |-> d] : d \in {<<>>, <<"2", "0", "2", "4", "-", "0", "2", "-", "2", "7">>, <<"2", "0", "2", "4", "-", "0", "2", "-", "2", "7", "T", "2", "0", ":", "0", "0", ":", "0", "0", "-", "0", "4", "0", "0">>, <<"2", "0", "2", "4", "-", "0", "3", "-", "0", "9">>}}

call_extract_songkick_row_candidate ==
    /\ pc = "idle"
    /\ \E time_tag \in ClassifyTimeTags, row \in ClassifyRows :
          /\ request' = [time_tag |-> time_tag, row |-> row]
          /\ result' = [candidate |-> extract_songkick_row_candidate(time_tag, row, SONGKICK_URL,
                                          sf_venue_whitelist_lower, nyc_venue_whitelist_lower)]
    /\ pc' = "extract_songkick_row_candidate"
    /\ UNCHANGED <<venuesFile, sf_venue_whitelist_lower, nyc_venue_whitelist_lower>>

NextClassify == call_extract_songkick_row_candidate \/ Return

SpecClassify == Init /\ [][NextClassify]_vars

Classified == pc = "extract_songkick_row_candidate" /\ ~result.candidate.none

\* What each strategy says of the row of the request on its own, in the order
\* slug, City/State, tokens, allow-list; None where it yields no metro.
StrategyMetros ==
    LET links == request.row.links
        venue == result.candidate.venue
        slugs == {i \in 1..Len(links) : \/ NYC_METRO_SLUG_RE_search(links[i].href)
                                        \/ sf_metro_slug_re_search(links[i].href)}
        venue_specific_text == extract_venue_specific_text(request.row.text, venue)
    IN  << IF slugs = {} THEN None
           ELSE IF NYC_METRO_SLUG_RE_search(links[Min(slugs)].href) THEN "NYC" ELSE "SF",
           IF venue_specific_text = NoText THEN None
           ELSE classify_city_state_from_text(venue_specific_text).metro,
           IF venue_specific_text = NoText THEN None
           ELSE fallback_tokens_to_metro(venue_specific_text),
           IF venue = <<>> THEN None
           ELSE IF lower(venue) \in nyc_venue_whitelist_lower THEN "NYC"
           ELSE IF lower(venue) \in sf_venue_whitelist_lower THEN "SF"
           ELSE None >>

\* C23: the metro of the candidate is that of the first of the strategies
\* slug, City/State, tokens, allow-list that yields one, and none when none
\* does; the allow-list decides only when the three before it yield nothing
\* and the venue, lower-cased, is on a list.
C23_FirstStrategyWins ==
    Classified =>
        LET metros == StrategyMetros
            yielding == {k \in 1..4 : metros[k] # None}
        IN  /\ result.candidate.metro = (IF yielding = {} THEN None ELSE metros[Min(yielding)])
            /\ \A k \in 1..3 : metros[k] # None /\ metros[4] # None /\ metros[k] # metros[4]
                                  => result.candidate.metro # metros[4] \/ Min(yielding) < k
            /\ (result.candidate.metro # None /\ \A k \in 1..3 : metros[k] = None)
                  => lower(result.candidate.venue)
                        \in (nyc_venue_whitelist_lower \cup sf_venue_whitelist_lower)

\* City/State says SF, the tokens and the allow-list say NYC: SF it is.
C23_Witness ==
    /\ Classified
    /\ StrategyMetros = <<None, "SF", "NYC", "NYC">>
    /\ result.candidate.metro = "SF"

\* The first link of the row of the request whose href matches a metro slug
\* pattern, as a set: empty when there is none.
SlugLinks ==
    LET links == request.row.links
        slugs == {i \in 1..Len(links) : \/ NYC_METRO_SLUG_RE_search(links[i].href)
                                        \/ sf_metro_slug_re_search(links[i].href)}
    IN  IF slugs = {} THEN {} ELSE {links[Min(slugs)]}

\* The city text City/State matching captured for the row of the request.
CityStateCapture ==
    LET venue_specific_text == extract_venue_specific_text(request.row.text, result.candidate.venue)
    IN  IF venue_specific_text = NoText THEN NoText
        ELSE classify_city_state_from_text(venue_specific_text).city

DefaultCity(metro) ==
    IF metro = "NYC" THEN <<"N", "e", "w", " ", "Y", "o", "r", "k", ",", " ", "N", "Y">>
    ELSE IF metro = "SF" THEN <<"S", "a", "n", " ", "F", "r", "a", "n", "c", "i", "s", "c", "o", ",", " ", "C", "A">>
    ELSE <<>>

\* Without a slug link the city is the captured City/State text, and the
\* default of the metro where nothing was captured.
DefaultCityWithoutSlug ==
    Classified /\ SlugLinks = {} =>
        result.candidate.city = (IF CityStateCapture # NoText THEN CityStateCapture
                                 ELSE DefaultCity(result.candidate.metro))

\* C24: a row with a link matching a metro slug pattern gives a candidate of
\* that metro whose city is the text of that link; the default city of a metro
\* stands only where a metro resolved and no city text was captured.
C24_SlugLinkTextIsCity ==
    /\ Classified =>
          \A link \in SlugLinks :
              /\ result.candidate.metro = StrategyMetros[1]
              /\ result.candidate.city = link.text
    /\ DefaultCityWithoutSlug

-----------------------------------------------------------------------------
(* nearest_row (worker.py and songkick_row_classification.py, same text)   *)

\* Nodes of the chain from the time tag upwards are numbered by their level:
\* 0 the tag itself, 1 its parent, up to dom.depth; the parent of the topmost
\* node is Python's None.
NoNode == -1

parent(dom, p) == IF p < dom.depth THEN p + 1 ELSE NoNode

\* p.find(...): whether a descendant of node p is a time element, a link, an
\* element of a location class. Every node above the time tag holds the tag;
\* what a node holds, the nodes above it hold too.
find_time(dom, p) == p >= 1 \/ dom.nested_time

find_a(dom, p) == p >= dom.link_level

find_location(dom, p) == p >= dom.location_level

NEAREST_ROW_RANGE == 6

\* The loop of nearest_row at node p with n rounds left.
RECURSIVE nearest_row_from(_, _, _)
nearest_row_from(dom, p, n) ==
    IF n = 0 \/ p = NoNode
    THEN IF parent(dom, 0) # NoNode THEN parent(dom, 0) ELSE 0
    ELSE IF find_time(dom, p) /\ (find_a(dom, p) \/ find_location(dom, p))
    THEN p
    ELSE nearest_row_from(dom, parent(dom, p), n - 1)

nearest_row(dom) == nearest_row_from(dom, 0, NEAREST_ROW_RANGE)

MaxDepth == 8

\* Documents around a time tag: how many nodes stand above it, whether it
\* holds a time element itself, and the lowest levels holding a link and a
\* location element (one past the top: none does).
Doms ==
    {[depth |-> d, nested_time |-> t, link_level |-> a, location_level |-> l] :
        d \in 0..MaxDepth, t \in BOOLEAN, a \in 0..(MaxDepth + 1), l \in 0..(MaxDepth + 1)}

call_nearest_row ==
    /\ pc = "idle"
    /\ \E dom \in Doms :
          /\ dom.link_level <= dom.depth + 1
          /\ dom.location_level <= dom.depth + 1
          /\ request' = [dom |-> dom]
          /\ result' = [row |-> nearest_row(dom)]
    /\ pc' = "nearest_row"
    /\ UNCHANGED <<venuesFile, sf_venue_whitelist_lower, nyc_venue_whitelist_lower>>

NextRow == call_nearest_row \/ Return

SpecRow == Init /\ [][NextRow]_vars

\* The nodes of the request, the time tag among them, that hold a time element
\* and a link or a location element.
Qualifying ==
    {p \in 0..request.dom.depth :
        /\ p >= 1 \/ request.dom.nested_time
        /\ p >= request.dom.link_level \/ p >= request.dom.location_level}

\* C25: the row is the nearest node up to 6 levels above the time tag that
\* holds a time element and a link or location element, the 6th level
\* included; where there is none, the parent of the tag, or the tag itself
\* when it has no parent.
C25_NearestWithinSixLevels ==
    pc = "nearest_row" =>
        LET within == {p \in Qualifying : p <= 6}
        IN  result.row = (IF within # {} THEN Min(within)
                          ELSE IF request.dom.depth >= 1 THEN 1 ELSE 0)

\* The same up to the 5th level, which is as far as the loop gets.
NearestWithinFiveLevels ==
    pc = "nearest_row" =>
        LET within == {p \in Qualifying : p <= 5}
        IN  result.row = (IF within # {} THEN Min(within)
                          ELSE IF request.dom.depth >= 1 THEN 1 ELSE 0)

-----------------------------------------------------------------------------
(* extract_venue_specific_text as a call                                   *)

\* n characters that belong neither to a venue nor to a city.
Filler(n) == [i \in 1..n |-> "0"]

FILLER_LENGTHS == {0, 40, 60, 95, 130}

\* Row texts: the venue and the place, either one first, with more or less of
\* the row before, between and after them.
WindowTexts ==
    {Filler(before) \o first \o Filler(between) \o <<" ">> \o second \o Filler(after) :
        before \in {0, 30, 130}, between \in FILLER_LENGTHS, after \in {0, 70, 130},
        first \in {<<"F", "i", "l", "l", "m", "o", "r", "e">>}, second \in {<<>>, <<"O", "a", "k", "l", "a", "n", "d", ",", " ", "C", "A">>, <<"A", "l", "b", "a", "n", "y", ",", " ", "N", "Y", ",", " ", "U", "S">>}}
    \cup
    {Filler(before) \o first \o Filler(between) \o <<" ">> \o second \o Filler(after) :
        before \in {0, 30, 130}, between \in FILLER_LENGTHS, after \in {0, 70, 130},
        first \in {<<"O", "a", "k", "l", "a", "n", "d", ",", " ", "C", "A">>}, second \in {<<"F", "i", "l", "l", "m", "o", "r", "e">>}}

call_extract_venue_specific_text ==
    /\ pc = "idle"
    /\ \E full_text \in WindowTexts, venue \in {<<>>, <<"F", "i", "l", "l", "m", "o", "r", "e">>, <<"F", "I", "L", "L", "M", "O", "R", "E">>, <<"R", "o", "x", "y">>} :
          /\ request' = [full_text |-> full_text, venue |-> venue]
          /\ result' = [window |-> venue_window(full_text, venue),
                        venue_text |-> extract_venue_specific_text(full_text, venue)]
    /\ pc' = "extract_venue_specific_text"
    /\ UNCHANGED <<venuesFile, sf_venue_whitelist_lower, nyc_venue_whitelist_lower>>

NextWindow == call_extract_venue_specific_text \/ Return

SpecWindow == Init /\ [][NextWindow]_vars

Windowed == pc = "extract_venue_specific_text" /\ ~result.window.none

\* The first occurrence of the venue in the row text of the request, the
\* window of 100 characters either side of it clipped to the text, and the
\* City/State span matched in that window; all 0-based, ends exclusive.
OriginalWindow ==
    LET full_text == request.full_text
        venue_index == find(lower(full_text), lower(request.venue))
        venue_end == venue_index + Len(request.venue)
        start == IF venue_index > 100 THEN venue_index - 100 ELSE 0
        end == IF venue_end + 100 < Len(full_text) THEN venue_end + 100 ELSE Len(full_text)
        match == CITY_STATE_RE_search(Slice(full_text, start, end))
    IN  [venue_index |-> venue_index, venue_end |-> venue_end, start |-> start, end |-> end,
         matched |-> match.found,
         city_start |-> start + match.start - 1, city_end |-> start + match.end - 1]

\* The final window holds the whole City/State span and lies in the row text.
WindowHoldsCitySpan ==
    Windowed /\ OriginalWindow.matched =>
        /\ 0 <= result.window.start /\ result.window.end <= Len(request.full_text)
        /\ result.window.start <= OriginalWindow.city_start
        /\ OriginalWindow.city_end <= result.window.end

\* Without a City/State match the window is the original one.
WindowWithoutMatch ==
    Windowed /\ ~OriginalWindow.matched =>
        /\ result.window.start = OriginalWindow.start
        /\ result.window.end = OriginalWindow.end

\* C26: the window runs from 100 characters before the first occurrence of the
\* venue to 100 after its end, clipped to the row text; with a City/State match
\* it is widened: it lies in the row text, holds the original window and so the
\* venue, and holds the whole matched span.
C26_WindowWidened ==
    /\ WindowWithoutMatch
    /\ WindowHoldsCitySpan
    /\ Windowed /\ OriginalWindow.matched =>
          /\ result.window.start <= OriginalWindow.start
          /\ OriginalWindow.end <= result.window.end
          /\ result.window.start <= OriginalWindow.venue_index
          /\ OriginalWindow.venue_end <= result.window.end

-----------------------------------------------------------------------------
(* The decision path and the order of the input                            *)

DecisionPaths ==
    {<<"no_valid_candidates">>, <<"latest_date">>, <<"latest_date", "near_tie_precedence">>,
     <<"latest_date", "precedence">>, <<"latest_date", "precedence", "venue_tiebreaker">>}

\* C27: the decision path is one of the five paths; the winner is none exactly
\* when it is ["no_valid_candidates"]; it holds "precedence" exactly when more
\* than one valid candidate has the latest date, "near_tie_precedence" exactly
\* when one valid candidate has the latest date and another valid one is dated
\* within 3 days of it, and "venue_tiebreaker" only if the venue of the winner
\* is not empty and occurs in its snippet.
C27_PathAuditsRules ==
    Selected =>
        LET F == Facts
            tags == Range(result.decision_path)
        IN  /\ result.decision_path \in DecisionPaths
            /\ result.winner = NoWinner <=> result.decision_path = <<"no_valid_candidates">>
            /\ "precedence" \in tags <=> Cardinality(F.latest) > 1
            /\ "near_tie_precedence" \in tags <=> Cardinality(F.latest) = 1 /\ F.near # {}
            /\ "venue_tiebreaker" \in tags => result.winner \in F.named

\* C27 witness: one latest candidate, another one exactly 3 days older, and the
\* path says so.
C27_Witness ==
    LET F == Facts
    IN  /\ Selected
        /\ Cardinality(F.latest) = 1
        /\ \E i \in F.near : \A j \in F.latest : F.date[j] - F.date[i] = 3
        /\ result.decision_path = <<"latest_date", "near_tie_precedence">>
        /\ result.winner \in F.latest

-----------------------------------------------------------------------------
(* The classifier and the validity filter                                  *)

\* The classifier gave the row a metro and a date that parses and is not
\* after today.
ClassifiedPast ==
    /\ Classified
    /\ result.candidate.metro \in {"SF", "NYC"}
    /\ strptime(result.candidate.date_iso) # ValueError
    /\ strptime(result.candidate.date_iso) <= Today

\* The candidate scrape_songkick builds from the classifier's dict, not
\* canceled, passes the validity filter for the classifier's metro.
PassesFilter ==
    is_valid_candidate(CandidateOf(result.candidate, FALSE), result.candidate.metro)

\* Where the city is the default of the metro, or the City/State match itself
\* resolved the metro from a locality that is also a selection token, the
\* filter agrees.
AgreesOnSharedLocalities ==
    ClassifiedPast /\ (\/ result.candidate.city = DefaultCity(result.candidate.metro)
                       \/ /\ StrategyMetros[1] = None
                          /\ StrategyMetros[2] = result.candidate.metro
                          /\ ~Contains(<<"b", "k", "l", "y", "n">>, lower(result.candidate.city)))
        => PassesFilter

\* C28: a candidate to which the row classifier assigns a metro, not canceled
\* and not dated after today, passes the validity filter of select for that
\* metro with the city and venue the classifier emitted, the venues file
\* being the one the allow-lists were loaded from.
C28_ClassifierAgreesWithFilter ==
    ClassifiedPast => PassesFilter

\* The valid positions that tie with position w on all that the rule that
\* chose the winner compares: in an exact-date tie the date, the source
\* precedence and whether the venue occurs in the snippet; in a near-tie the
\* source precedence and the date.
TiedWith(F, w) ==
    IF "precedence" \in Range(result.decision_path)
    THEN {j \in F.latest : F.rank[j] = F.rank[w] /\ (j \in F.named <=> w \in F.named)}
    ELSE IF "near_tie_precedence" \in Range(result.decision_path)
    THEN {j \in F.latest \cup F.near : F.rank[j] = F.rank[w] /\ F.date[j] = F.date[w]}
    ELSE {w}

\* C29: of the valid candidates that tie with the winner on every criterion
\* the rule applied compares, the winner is the one that stands first in the
\* input list.
C29_InputOrderBreaksTies ==
    Selected /\ result.winner # NoWinner =>
        \A j \in TiedWith(Facts, result.winner) : result.winner <= j

\* C29 witness: the winner of an exact-date tie stands before a different
\* candidate that ties with it.
C29_Witness ==
    /\ Selected
    /\ result.winner # NoWinner
    /\ result.decision_path = <<"latest_date", "precedence">>
    /\ \E j \in TiedWith(Facts, result.winner) :
          /\ j > result.winner
          /\ request.candidates[j] # request.candidates[result.winner]

\* Candidates of the lists that are reordered: Bay Area candidates that differ
\* in what the ranking reads, two of them twice with another url, and one dated
\* tomorrow.
PermutePool ==
    LET named == [BaseCandidate EXCEPT !.venue = VENUE_FILLMORE, !.snippet = SNIPPET_WITH_VENUE]
        plain == [BaseCandidate EXCEPT !.venue = VENUE_FILLMORE]
        older == [BaseCandidate EXCEPT !.date_iso = D_3_AGO, !.source_type = "venue"]
    IN  {named, plain, [plain EXCEPT !.url = URL_A2], [plain EXCEPT !.source_type = "venue"],
         older, [older EXCEPT !.url = URL_A2],
         [BaseCandidate EXCEPT !.date_iso = D_TOMORROW, !.source_type = "venue"]}

MaxPermuted == 3

\* The orders in which n candidates can stand.
Orders(n) == {p \in [1..n -> 1..n] : \A i, j \in 1..n : p[i] = p[j] => i = j}

\* Two calls of select_latest_candidates for the Bay Area on the same day, the
\* second with the candidates of the first in another order.
select_latest_permuted ==
    /\ pc = "idle"
    /\ \E cs \in ListsUpTo(PermutePool, MaxPermuted) :
          \E p \in Orders(Len(cs)) :
              LET permuted == [i \in 1..Len(cs) |-> cs[p[i]]]
              IN  /\ request' = [candidates |-> cs, permuted |-> permuted, metro |-> "SF"]
                  /\ result' = [first |-> select_latest_candidates(cs, "SF"),
                                second |-> select_latest_candidates(permuted, "SF")]
    /\ pc' = "select_latest_permuted"
    /\ UNCHANGED <<venuesFile, sf_venue_whitelist_lower, nyc_venue_whitelist_lower>>

NextPermuted == select_latest_permuted \/ Return

SpecPermuted == Init /\ [][NextPermuted]_vars

\* The winners of the two calls: the candidates, or none.
FirstWinner ==
    IF result.first.winner = NoWinner THEN {} ELSE {request.candidates[result.first.winner]}

SecondWinner ==
    IF result.second.winner = NoWinner THEN {} ELSE {request.permuted[result.second.winner]}

\* C30: select on a list and on any reordering of it, for the same metro and
\* day, gives the same decision path, and winners of the same date and the
\* same source precedence.
C30_OrderInsensitive ==
    pc = "select_latest_permuted" =>
        /\ result.first.decision_path = result.second.decision_path
        /\ {c.date_iso : c \in FirstWinner} = {c.date_iso : c \in SecondWinner}
        /\ {precedence(c) : c \in FirstWinner} = {precedence(c) : c \in SecondWinner}

\* C30 witness: the reordering of three candidates changed the winner of an
\* exact-date tie, and neither its date nor its precedence.
C30_Witness ==
    /\ pc = "select_latest_permuted"
    /\ Len(request.candidates) = 3
    /\ result.first.decision_path = <<"latest_date", "precedence">>
    /\ FirstWinner # SecondWinner

====
